---- MODULE Spec2Model ----
(***************************************************************************)
(* Station command dispatch of the RCLL referee box (LLSFRefBox).          *)
(*                                                                         *)
(* The rule engine (CLIPS) runs on the thread that executes handle_timer.  *)
(* While it runs it may call the mps-* command functions.  clips_mps_reset,*)
(* clips_mps_deliver and clips_mps_cs_process start a std::async task and  *)
(* keep its future in mutex_futures_; all other commands call the station  *)
(* on the rule-engine thread.  clips_mutex_ guards the CLIPS environment.  *)
(***************************************************************************)
EXTENDS Integers, Sequences, FiniteSets, TLC

\* ------------------------------------------------------------------ bounds
MaxCmds == 2      \* command-function calls the rules make in a behaviour
MaxTicks == 2     \* timer expiries handled in a behaviour
MaxEvents == 2    \* value changes the stations' connections produce in a behaviour
MaxKeys == 2      \* configuration keys under /llsfrb/mps/stations/
MaxMps == 2       \* legacy referee box: the value of /llsfrb/mps/count
MaxDirs == 2      \* entries of /llsfrb/comm/protobuf-dirs
MaxLen == 3       \* characters of a protobuf directory string

\* ------------------------------------------------------------ fixed data
Stations == {"C-CS1", "C-RS1"}          \* the keys of mps_
\* names the rules may pass: the stations, one that only ScenarioConfig
\* configures, one that is never configured
Names == Stations \cup {"C-RS3", "X-XX9"}
TaskIds == 1..MaxCmds                   \* one std::async thread per accepted command
Main == 0                               \* the thread running io_service_.run()
NoOwner == -1                           \* clips_mutex_ is free

CsOperations == {"RETRIEVE_CAP", "MOUNT_CAP"}
OpOutcomes == {"ok", "timeout", "throw"}  \* how a call into the station ends

BaseColors == {"BASE_RED", "BASE_SILVER", "BASE_BLACK"}
LightColors == {"RED", "YELLOW", "GREEN"}
LightStates == {"ON", "BLINK", "OFF"}
Positions == {"INPUT", "MIDDLE", "OUTPUT"}
Directions == {"FORWARD", "BACKWARD"}
Bogus == "BOGUS"                          \* a symbol no command recognises
Slides == {1, 2}                          \* slide / feeder numbers the rules pass

\* names a station may be configured under; "C-RS3" is not one of the four
\* names setup_clips compares with
ConfigNames == Stations \cup {"C-RS3"}
SlideCounterNames == {"C-RS1", "C-RS2", "M-RS1", "M-RS2"}
\* the type strings of the configuration: cap station, ring station, and one
\* that is none of the five kinds
Kinds == {"BS", "CS", "RS", "DS", "SS"}
ConfigTypes == {"CS", "RS", "Foo"}
Registers == {"READY", "BUSY", "BARCODE", "SLIDE-COUNTER"}
\* the notification thread of a station's connection
CbThread == [n \in ConfigNames |->
               CASE n = "C-CS1" -> 11 [] n = "C-RS1" -> 12 [] n = "C-RS3" -> 13]
CbThreads == {CbThread[n] : n \in ConfigNames}

\* call: the station operation the command function is inside; k: the call
\* of clips_mps_set_light that clips_mps_set_lights has reached
NoCmd == [op |-> "none", machine |-> "none", arg |-> <<>>, fut |-> 0,
          call |-> <<>>, k |-> 0]

\* timeout: the first station call of the task whose wait ran into its bound
NoTask == [station |-> "none", op |-> "none", arg |-> <<>>, pc |-> "none",
           timeout |-> "none"]

VARIABLES
    engine,          \* position of the rule-engine thread
    cur,             \* the command function the rule-engine thread is inside
    tasks,           \* the std::async threads, by id
    mutex_futures_,  \* the pending table: pairs <<station name, task id>>
    clips_mutex_,    \* owner of the fact-base lock
    facts,           \* facts asserted into the CLIPS environment, in order
    log,             \* error lines written through logger_
    ncmds,           \* command-function calls so far
    ticks,           \* timer expiries handled so far
    config,          \* the configuration file, as the constructor reads it
    mps_,            \* the station objects by name: name -> kind
    boot,            \* the constructor, run() and the destructor on the main thread
    subs,            \* the callbacks added to the stations: <<name, register>>
    events,          \* per station: notifications produced, callback not yet called
    cbs,             \* per station: the callback its notification thread is inside
    produced,        \* per station: every notification produced so far, in order
    agenda,          \* the command calls the rules are going to make, if scripted
    sps_             \* legacy referee box: the SPS communication object, with the
                     \* read failures and the reconnect attempts so far

\* the state of start-up, shutdown and the status callbacks
ext == <<config, mps_, boot, subs, events, cbs, produced>>
engine_vars == <<engine, cur, tasks, mutex_futures_, ncmds, ticks>>
status_vars == <<events, cbs, produced>>

vars == <<engine, cur, tasks, mutex_futures_, clips_mutex_, facts, log, ncmds, ticks,
          config, mps_, boot, subs, events, cbs, produced, agenda, sps_>>

\* --------------------------------------------------------------- helpers
Entries(name) == {e \in mutex_futures_ : e[1] = name}

Started(t) == tasks[t].pc # "none"

\* mutant: a future that holds an exception is never seen as ready
FutureReady_value_only(t) == tasks[t].pc = "ready"

\* std::future::wait_for(0ms) == ready: the task function returned or threw
FutureReady(t) == tasks[t].pc \in {"ready", "threw"}

FreeTask == CHOOSE t \in TaskIds : ~Started(t) /\ \A u \in TaskIds : ~Started(u) => t <= u

\* mutant: the readiness of the found future is not looked at
mutex_future_ready_always(name) ==
    TRUE

\* mutant: any unfinished future in the table blocks, whatever its station
mutex_future_ready_any(name) ==
    \A e \in mutex_futures_ : FutureReady(e[2])

\* mutex_future_ready: the value returned
mutex_future_ready(name) ==
    \A e \in Entries(name) : FutureReady(e[2])

\* mutant: the found entry is erased before its future is polled
mutex_future_erase_found(name) ==
    mutex_futures_ \ Entries(name)

\* mutex_future_ready: the table it leaves; an entry that is found and whose
\* future is ready is erased
mutex_future_erase(name) ==
    {e \in mutex_futures_ : ~(e[1] = name /\ FutureReady(e[2]))}

\* mutex_futures_[machine] = std::move(fut)
mutex_futures_assign(machine, t) ==
    (mutex_futures_ \ Entries(machine)) \cup {<<machine, t>>}

\* first station call of the task a command starts
FirstStep(op) ==
    CASE op = "reset" -> "reset"
      [] op = "deliver" -> "conveyor_move"
      [] op = "cs-process" -> "band_on_until_mid"

\* the callbacks setup_clips adds to one station: the slide counter is chosen
\* by the station's name
SubscriptionsFor(name) ==
    {<<name, "READY">>, <<name, "BUSY">>, <<name, "BARCODE">>}
      \cup (IF name \in SlideCounterNames THEN {<<name, "SLIDE-COUNTER">>} ELSE {})

NoCb == [pc |-> "idle", reg |-> "none", ret |-> 0]

\* the configuration that makes Stations: two active stations, no simulation,
\* no connection setting, neither the common one nor one of a station
FixedConfig ==
    [enable |-> TRUE, simulation |-> FALSE,
     keys |-> <<"C-CS1", "C-RS1">>,
     type |-> [n \in ConfigNames |-> IF n = "C-CS1" THEN "CS" ELSE "RS"],
     active |-> [n \in ConfigNames |-> TRUE],
     connection |-> [k \in ConfigNames \cup {"/llsfrb/mps/connection"} |-> "absent"]]

\* the scenario of three stations of different kinds: a base station, a ring
\* station and a delivery station, whatever their names
ScenarioConfig ==
    [enable |-> TRUE, simulation |-> FALSE,
     keys |-> <<"C-CS1", "C-RS1", "C-RS3">>,
     type |-> [n \in ConfigNames |->
                 CASE n = "C-CS1" -> "BS" [] n = "C-RS1" -> "RS" [] n = "C-RS3" -> "DS"],
     active |-> [n \in ConfigNames |-> TRUE],
     connection |-> [k \in ConfigNames \cup {"/llsfrb/mps/connection"} |-> "absent"]]

\* the rules of the scenario dispense a base at the base station, mount a
\* ring at the ring station and deliver at the delivery station
Scenario ==
    {<<"bs-dispense", "C-CS1", <<"BASE_RED">>>>,
     <<"rs-mount-ring", "C-RS1", <<2>>>>,
     <<"ds-process", "C-RS3", <<1>>>>}

\* the calls a rule can make: a command function, a station name, the
\* argument symbols
Calls ==
    LET args(op) ==
          CASE op = "bs-dispense" -> {<<c>> : c \in BaseColors \cup {Bogus}}
            [] op \in {"ds-process", "rs-mount-ring"} -> {<<n>> : n \in Slides}
            [] op = "move-conveyor" ->
                 (Positions \cup {Bogus}) \X (Directions \cup {Bogus})
            [] op = "set-light" ->
                 (LightColors \cup {Bogus}) \X (LightStates \cup {Bogus})
            [] op = "set-lights" ->
                 (LightStates \cup {Bogus}) \X (LightStates \cup {Bogus})
                   \X (LightStates \cup {Bogus})
            [] op = "cs-process" -> {<<o>> : o \in CsOperations \cup {Bogus}}
            [] OTHER -> {<<>>}
    IN UNION {{<<op, machine, arg>> : machine \in Names, arg \in args(op)} :
                op \in {"bs-dispense", "ds-process", "rs-mount-ring", "move-conveyor",
                        "cs-retrieve-cap", "cs-mount-cap", "set-light", "reset-lights",
                        "set-lights", "cs-process", "deliver", "reset"}}

\* the constructor's locals once every station of FixedConfig is connected
ConnectedBoot ==
    [pc |-> "clips", k |-> Len(FixedConfig.keys),
     mps_configs |-> Stations, ignored_mps_configs |-> {},
     mps_connections |-> [n \in ConfigNames |-> IF n \in Stations THEN "true" ELSE "none"],
     pending |-> "none",
     created |-> [n \in ConfigNames |-> IF n \in Stations THEN 1 ELSE 0],
     connects |-> [n \in ConfigNames |-> IF n \in Stations THEN 1 ELSE 0],
     got |-> Stations, exception |-> <<>>,
     connection_string |-> [n \in ConfigNames |-> IF n \in Stations THEN "plc" ELSE "none"],
     armed |-> {}, functions |-> FALSE]

\* the rule-engine thread, the tasks and the fact base before any command
InitEngine ==
    /\ engine = "idle"
    /\ cur = NoCmd
    /\ tasks = [t \in TaskIds |-> NoTask]
    /\ mutex_futures_ = {}
    /\ clips_mutex_ = NoOwner
    /\ facts = <<>>
    /\ ncmds = 0
    /\ ticks = 0

\* no register has changed yet; the rules are not modelled; the referee box
\* of part_000 has no SPS
InitStatus ==
    /\ events = [n \in ConfigNames |-> <<>>]
    /\ cbs = [n \in ConfigNames |-> NoCb]
    /\ produced = [n \in ConfigNames |-> <<>>]
    /\ agenda = [scripted |-> FALSE, calls |-> {}]
    /\ sps_ = [null |-> TRUE, failures |-> 0, reconnects |-> 0]

\* the state when run() has entered io_service_.run(): the stations of
\* FixedConfig are connected, the commands registered, the callbacks added
Init ==
    /\ InitEngine
    /\ InitStatus
    /\ log = {}
    /\ config = FixedConfig
    /\ mps_ = [n \in Stations |-> FixedConfig.type[n]]
    /\ boot = [ConnectedBoot EXCEPT !.pc = "running", !.armed = Stations,
                                    !.functions = TRUE]
    /\ subs = UNION {SubscriptionsFor(n) : n \in Stations}

\* ------------------------------------------------------------ handle_timer
\* mutant: the rule engine is run without taking the lock
TimerLock_unlocked ==
    /\ boot.pc = "running"
    /\ engine = "idle"
    /\ ticks < MaxTicks
    /\ engine' = "assert_time"
    /\ ticks' = ticks + 1
    /\ UNCHANGED <<cur, tasks, mutex_futures_, clips_mutex_, facts, log, ncmds, ext, agenda, sps_>>

\* fawkes::MutexLocker lock(&clips_mutex_) on a timer expiry without error
TimerLock ==
    /\ boot.pc = "running"
    /\ engine = "idle"
    /\ ticks < MaxTicks
    /\ clips_mutex_ = NoOwner
    /\ clips_mutex_' = Main
    /\ engine' = "assert_time"
    /\ ticks' = ticks + 1
    /\ UNCHANGED <<cur, tasks, mutex_futures_, facts, log, ncmds, ext, agenda, sps_>>

\* clips_->assert_fact("(time (now))"); refresh_agenda(); enter run()
TimerAssert ==
    /\ engine = "assert_time"
    /\ facts' = Append(facts, <<"time">>)
    /\ engine' = "run"
    /\ UNCHANGED <<cur, tasks, mutex_futures_, clips_mutex_, log, ncmds, ticks, ext, agenda, sps_>>

\* run() returns, the lock goes out of scope, the timer is re-armed
TimerUnlock ==
    /\ boot.pc = "running"
    /\ engine = "run"
    /\ clips_mutex_' = NoOwner
    /\ engine' = "idle"
    /\ UNCHANGED <<cur, tasks, mutex_futures_, facts, log, ncmds, ticks, ext, agenda, sps_>>

\* ------------------------------------------------ the protobuf directories
\* the directory strings of at most MaxLen characters, after the @BASEDIR@,
\* @RESDIR@, @CONFDIR@ and @SHAREDIR@ placeholders have been replaced: "/" and
\* one other character
DirStrings == UNION {[1..n -> {"a", "/"}] : n \in 0..MaxLen}

\* one round of the loop of setup_protobuf_comm over proto_dirs: the
\* character tested is proto_dirs[i][proto_dirs.size() - 1], the character of
\* string i at the index given by the number of directories.  At the index
\* size() of the string operator[] yields the terminating NUL; beyond it the
\* read is out of bounds and may yield any character
setup_protobuf_comm ==
    /\ boot.pc = "protobuf_dirs"
    /\ LET proto_dirs == config.proto_dirs
           i == boot.k + 1
       IN IF i > Len(proto_dirs)
            THEN /\ boot' = [boot EXCEPT !.pc = "protobuf_comm"]
                 /\ UNCHANGED config
            ELSE \E c \in {"a", "/", "NUL"} :
                   /\ c = IF Len(proto_dirs) <= Len(proto_dirs[i])
                            THEN proto_dirs[i][Len(proto_dirs)]
                            ELSE IF Len(proto_dirs) = Len(proto_dirs[i]) + 1
                              THEN "NUL"
                              ELSE c
                   /\ config' = [config EXCEPT !.proto_dirs[i] =
                                    IF c # "/" THEN Append(@, "/") ELSE @]
                   /\ boot' = [boot EXCEPT !.k = i]
    /\ UNCHANGED <<engine, cur, tasks, mutex_futures_, clips_mutex_, facts, log, ncmds,
                   ticks, mps_, subs, events, cbs, produced, agenda, sps_>>

\* ------------------------------------- legacy referee box: the constructor
\* the configurations the SPS part of the legacy constructor reads: whether
\* /llsfrb/sps/enable is set and /llsfrb/sps/hosts exists, the machine
\* assignment, and the numeric type of each of the /llsfrb/mps/count stations
LegacyConfigurations ==
    [enable : BOOLEAN, hosts : BOOLEAN, assignment : {2013, 2014},
     mpstype : UNION {[1..count -> 0..5] : count \in 0..MaxMps}]

\* sps_ = NULL; with SPS enabled, either new SPSComm(hosts, ...) for the hosts
\* of the 2014 assignment, or one station object per configured station,
\* inserted into mps_, with sps_ left as it is.  A fawkes::Exception of
\* SPSComm, or the one thrown for a type outside 1..4, is caught by the outer
\* handler: warning, delete sps_, sps_ = NULL
LegacyConstructor ==
    /\ boot.pc = "sps_setup"
    /\ IF ~config.enable
         THEN /\ boot' = [boot EXCEPT !.pc = "running"]
              /\ UNCHANGED <<sps_, log>>
         ELSE IF config.hosts /\ config.assignment = 2014
           THEN \/ /\ sps_' = [sps_ EXCEPT !.null = FALSE]
                   /\ boot' = [boot EXCEPT !.pc = "reset_lights"]
                   /\ UNCHANGED log
                \/ /\ log' = log \cup {<<"warn", "RefBox", "Cannot connect to SPS, running without">>}
                   /\ boot' = [boot EXCEPT !.pc = "running"]
                   /\ UNCHANGED sps_
           ELSE IF \E i \in DOMAIN config.mpstype : config.mpstype[i] \notin 1..4
             THEN /\ log' = log \cup {<<"warn", "RefBox", "Cannot connect to SPS, running without">>}
                  /\ boot' = [boot EXCEPT !.pc = "running"]
                  /\ UNCHANGED sps_
             ELSE /\ boot' = [boot EXCEPT !.pc = "reset_lights"]
                  /\ UNCHANGED <<sps_, log>>
    /\ UNCHANGED <<engine, cur, tasks, mutex_futures_, clips_mutex_, facts, ncmds, ticks,
                   config, mps_, subs, events, cbs, produced, agenda>>

\* sps_->reset_lights(); sps_->reset_rfids(); sps_->test_lights(): on the
\* SPSComm they return, or one throws a fawkes::Exception, which is caught as
\* above.  With sps_ = NULL the call is a member call through a null pointer:
\* the process is terminated, or the calls go through and the constructor
\* continues
reset_lights ==
    /\ boot.pc = "reset_lights"
    /\ IF sps_.null
         THEN /\ \E how \in {"terminated", "continues"} :
                   /\ engine' = IF how = "terminated" THEN "terminated" ELSE engine
                   /\ boot' = [boot EXCEPT !.pc = IF how = "terminated"
                                                    THEN "null_dereferenced"
                                                    ELSE "running"]
              /\ UNCHANGED <<sps_, log>>
         ELSE /\ \/ UNCHANGED <<sps_, log>>
                 \/ /\ log' = log \cup {<<"warn", "RefBox", "Cannot connect to SPS, running without">>}
                    /\ sps_' = [sps_ EXCEPT !.null = TRUE]
              /\ boot' = [boot EXCEPT !.pc = "running"]
              /\ UNCHANGED engine
    /\ UNCHANGED <<cur, tasks, mutex_futures_, clips_mutex_, facts, ncmds, ticks,
                   config, mps_, subs, events, cbs, produced, agenda>>

\* a rule calls sps-set-signal: if (! sps_) return; else to_machine and
\* sps_->set_light, whose fawkes::Exception is caught and logged
clips_sps_set_signal ==
    /\ engine = "run"
    /\ ncmds < MaxCmds
    /\ ncmds' = ncmds + 1
    /\ IF sps_.null
         THEN UNCHANGED log
         ELSE \/ UNCHANGED log
              \/ log' = log \cup {<<"warn", "RefBox", "Failed to set signal">>}
    /\ UNCHANGED <<engine, cur, tasks, mutex_futures_, clips_mutex_, facts, ticks, ext,
                   agenda, sps_>>

\* ------------------------------------- legacy referee box: the RFID reader
\* handle_timer of the legacy referee box, on an expiry without error, calls
\* sps_read_rfids: if (! sps_) return; else the lock is taken
sps_read_rfids ==
    /\ boot.pc = "running"
    /\ engine = "idle"
    /\ ticks < MaxTicks
    /\ IF sps_.null
         THEN /\ engine' = "timer"
              /\ UNCHANGED clips_mutex_
         ELSE /\ clips_mutex_ = NoOwner
              /\ clips_mutex_' = Main
              /\ engine' = "read_rfids"
    /\ UNCHANGED <<cur, tasks, mutex_futures_, facts, log, ncmds, ticks, ext, agenda, sps_>>

\* sps_->read_rfids() returns the puck of every machine and one fact per
\* machine is asserted, or it throws a fawkes::Exception, which is caught and
\* logged.  At the end of the function the MutexLocker releases the lock
read_rfids ==
    /\ engine = "read_rfids"
    /\ \/ \E has_puck \in [1..2 -> BOOLEAN] :
            /\ facts' = facts \o
                  [i \in 1..2 |->
                     IF has_puck[i]
                       THEN <<"rfid-input", <<"M1", "M2">>[i], "TRUE", "7">>
                       ELSE <<"rfid-input", <<"M1", "M2">>[i], "FALSE">>]
            /\ clips_mutex_' = NoOwner
            /\ engine' = "timer"
            /\ UNCHANGED <<log, sps_>>
       \/ /\ log' = log \cup {<<"warn", "RefBox", "Failed to read RFIDs">>}
          /\ sps_' = [sps_ EXCEPT !.failures = @ + 1]
          /\ engine' = "try_reconnect"
          /\ UNCHANGED <<facts, clips_mutex_>>
    /\ UNCHANGED <<cur, tasks, mutex_futures_, ncmds, ticks, ext, agenda>>

\* mutant: sps_->try_reconnect() is called until it succeeds
try_reconnect_again ==
    /\ engine = "try_reconnect"
    /\ \E reconnected \in BOOLEAN :
         /\ log' = log \cup {IF reconnected
                               THEN <<"info", "RefBox", "Successfully reconnected">>
                               ELSE <<"error", "RefBox", "Failed to reconnect">>}
         /\ clips_mutex_' = IF reconnected THEN NoOwner ELSE clips_mutex_
         /\ engine' = IF reconnected THEN "timer" ELSE "try_reconnect"
    /\ sps_' = [sps_ EXCEPT !.reconnects = @ + 1]
    /\ UNCHANGED <<cur, tasks, mutex_futures_, facts, ncmds, ticks, ext, agenda>>

\* the handler of the read failure: sps_->try_reconnect() returns or throws
\* a fawkes::Exception, which is caught; either is logged, sps_read_rfids
\* returns and the MutexLocker releases the lock
try_reconnect ==
    /\ engine = "try_reconnect"
    /\ \E reconnected \in BOOLEAN :
         log' = log \cup {IF reconnected
                            THEN <<"info", "RefBox", "Successfully reconnected">>
                            ELSE <<"error", "RefBox", "Failed to reconnect">>}
    /\ sps_' = [sps_ EXCEPT !.reconnects = @ + 1]
    /\ clips_mutex_' = NoOwner
    /\ engine' = "timer"
    /\ UNCHANGED <<cur, tasks, mutex_futures_, facts, ncmds, ticks, ext, agenda>>

\* back in handle_timer of the legacy referee box: the lock is taken for
\* the time fact and run(); these and the re-arming of the timer are the
\* statements of TimerAssert and TimerUnlock
handle_timer ==
    /\ engine = "timer"
    /\ clips_mutex_ = NoOwner
    /\ clips_mutex_' = Main
    /\ engine' = "assert_time"
    /\ ticks' = ticks + 1
    /\ UNCHANGED <<cur, tasks, mutex_futures_, facts, log, ncmds, ext, agenda, sps_>>

\* ------------------------------------------------- asynchronous commands
\* logger_->log_error("MPS", text, ...): log holds the error lines
LogError(text, what) == <<"error", "MPS", text>>

\* A rule calls a command function: only inside clips_->run(), and only if
\* setup_clips has registered the function.  Rules that are not modelled make
\* at most MaxCmds calls, scripted rules make the calls on their agenda
InRun(call) ==
    /\ engine = "run"
    /\ boot.functions
    /\ IF agenda.scripted THEN call \in agenda.calls ELSE ncmds < MaxCmds
    /\ agenda' = [agenda EXCEPT !.calls = @ \ {call}]
    /\ UNCHANGED sps_

\* entry of a command that goes through the pending table:
\* mps_.at(machine), then on to mutex_future_ready
EnterAsync(op, machine, arg) ==
    /\ InRun(<<op, machine, arg>>)
    /\ ncmds' = ncmds + 1
    /\ IF machine \in DOMAIN mps_
         THEN /\ cur' = [NoCmd EXCEPT !.op = op, !.machine = machine, !.arg = arg]
              /\ engine' = "mutex_future_ready"
              /\ UNCHANGED log
         ELSE /\ log' = log \cup {LogError("Invalid station", machine)}
              /\ UNCHANGED <<cur, engine>>
    /\ UNCHANGED <<tasks, mutex_futures_, clips_mutex_, facts, ticks, ext>>

clips_mps_reset ==
    \E machine \in Names : EnterAsync("reset", machine, <<>>)

clips_mps_deliver ==
    \E machine \in Names : EnterAsync("deliver", machine, <<>>)

\* the operation symbol is checked before the station is looked up
clips_mps_cs_process ==
    \E machine \in Names, operation \in CsOperations \cup {Bogus} :
        IF operation \in CsOperations
          THEN EnterAsync("cs-process", machine, <<operation>>)
          ELSE /\ InRun(<<"cs-process", machine, <<operation>>>>)
               /\ ncmds' = ncmds + 1
               /\ log' = log \cup {LogError("Invalid operation", operation)}
               /\ UNCHANGED <<engine, cur, tasks, mutex_futures_, clips_mutex_,
                              facts, ticks, ext>>

\* mutant: the check waits until the future of the station is ready
CheckPending_waiting ==
    /\ engine = "mutex_future_ready"
    /\ mutex_future_ready(cur.machine)
    /\ mutex_futures_' = mutex_future_erase(cur.machine)
    /\ engine' = "async"
    /\ UNCHANGED <<cur, tasks, clips_mutex_, facts, log, ncmds, ticks, ext, agenda, sps_>>

\* if (!mutex_future_ready(machine)) { return; }
CheckPending ==
    /\ engine = "mutex_future_ready"
    /\ mutex_futures_' = mutex_future_erase(cur.machine)
    /\ engine' = IF mutex_future_ready(cur.machine) THEN "async" ELSE "rejected"
    /\ UNCHANGED <<cur, tasks, clips_mutex_, facts, log, ncmds, ticks, ext, agenda, sps_>>

\* the return statement taken when the slot is occupied
ReturnRejected ==
    /\ engine = "rejected"
    /\ engine' = "run"
    /\ cur' = NoCmd
    /\ UNCHANGED <<tasks, mutex_futures_, clips_mutex_, facts, log, ncmds, ticks, ext, agenda, sps_>>

\* auto fut = std::async(std::launch::async, [...] {...});
LaunchAsync ==
    /\ engine = "async"
    /\ tasks' = [tasks EXCEPT ![FreeTask] =
                   [station |-> cur.machine, op |-> cur.op, arg |-> cur.arg,
                    pc |-> FirstStep(cur.op), timeout |-> "none"]]
    /\ cur' = [cur EXCEPT !.fut = FreeTask]
    /\ engine' = "assign"
    /\ UNCHANGED <<mutex_futures_, clips_mutex_, facts, log, ncmds, ticks, ext, agenda, sps_>>

\* mutex_futures_[machine] = std::move(fut); the check before it has left
\* no entry for the station
AssignFuture ==
    /\ engine = "assign"
    /\ mutex_futures_' = mutex_futures_assign(cur.machine, cur.fut)
    /\ cur' = NoCmd
    /\ engine' = "run"
    /\ UNCHANGED <<tasks, clips_mutex_, facts, log, ncmds, ticks, ext, agenda, sps_>>

\* ------------------------------------------------------ the async tasks
StationSteps == {"reset", "conveyor_move", "band_on_until_mid", "retrieve_cap",
                 "mount_cap", "band_on_until_out"}
\* the station calls that wait until a position sensor of the conveyor is reached
WaitSteps == {"conveyor_move", "band_on_until_mid", "band_on_until_out"}
LockSteps == {"lock", "relock_mid", "relock_out"}
AssertSteps == {"assert_success", "assert_available", "assert_done"}

\* mutant: the DONE fact is asserted right after the conveyor reached the middle
AfterStation_skip_cap(pc) ==
    CASE pc = "reset" -> "ready"
      [] pc = "conveyor_move" -> "lock"
      [] pc = "band_on_until_mid" -> "relock_out"
      [] pc \in {"retrieve_cap", "mount_cap"} -> "band_on_until_out"
      [] pc = "band_on_until_out" -> "relock_out"

\* the statement that follows a station call that returned
AfterStation(pc) ==
    CASE pc = "reset" -> "ready"
      [] pc = "conveyor_move" -> "lock"
      [] pc = "band_on_until_mid" -> "relock_mid"
      [] pc \in {"retrieve_cap", "mount_cap"} -> "band_on_until_out"
      [] pc = "band_on_until_out" -> "relock_out"

\* mutant: the deliver task returns without asserting its fact
AfterLock_no_assert(pc) ==
    CASE pc = "lock" -> "return"
      [] pc = "relock_mid" -> "assert_available"
      [] pc = "relock_out" -> "return"

AfterLock(pc) ==
    CASE pc = "lock" -> "assert_success"
      [] pc = "relock_mid" -> "assert_available"
      [] pc = "relock_out" -> "assert_done"

AfterAssert(pc) ==
    CASE pc = "assert_success" -> "return"
      [] pc = "assert_available" -> "unlock"
      [] pc = "assert_done" -> "return"

\* the fact a task asserts at an assert step
TaskFact(t) ==
    CASE tasks[t].pc = "assert_success" ->
           <<"mps-feedback", "mps-deliver", "success", tasks[t].station>>
      [] tasks[t].pc = "assert_available" ->
           <<"mps-feedback", tasks[t].station, tasks[t].arg[1], "AVAILABLE">>
      [] tasks[t].pc = "assert_done" ->
           <<"mps-feedback", tasks[t].station, tasks[t].arg[1], "DONE">>

Alive == engine # "terminated"

\* the locks a thread holds; LLSFRefBox owns no lock besides clips_mutex_
LocksHeld(thread) == IF clips_mutex_ = thread THEN {"clips_mutex_"} ELSE {}

\* a call into the station made by a task returns or throws: an exception
\* leaves the lambda and is stored in the future
TaskStationReturn(t) ==
    /\ Alive
    /\ tasks[t].pc \in StationSteps
    /\ \E outcome \in OpOutcomes \ {"timeout"} :
         tasks' = [tasks EXCEPT
                     ![t].pc = IF outcome = "throw" THEN "threw"
                                                    ELSE AfterStation(tasks[t].pc)]
    /\ UNCHANGED <<engine, cur, mutex_futures_, clips_mutex_, facts, log, ncmds, ticks, ext, agenda, sps_>>

\* a call into the station that waits for a sensor returns because the wait
\* ran into its bound.  The lambdas are statements that drop what the call
\* reports: the next statement is executed as after a success
TaskStationTimeout(t) ==
    /\ Alive
    /\ tasks[t].pc \in WaitSteps
    /\ tasks' = [tasks EXCEPT ![t].pc = AfterStation(tasks[t].pc),
                              ![t].timeout = IF @ = "none" THEN tasks[t].pc ELSE @]
    /\ UNCHANGED <<engine, cur, mutex_futures_, clips_mutex_, facts, log, ncmds, ticks, ext, agenda, sps_>>

\* MutexLocker lock(&clips_mutex_) / lock.relock(): waits for the lock
TaskLock(t) ==
    /\ Alive
    /\ tasks[t].pc \in LockSteps
    /\ clips_mutex_ = NoOwner
    /\ clips_mutex_' = t
    /\ tasks' = [tasks EXCEPT ![t].pc = AfterLock(tasks[t].pc)]
    /\ UNCHANGED <<engine, cur, mutex_futures_, facts, log, ncmds, ticks, ext, agenda, sps_>>

\* clips_->assert_fact_f(...)
TaskAssert(t) ==
    /\ Alive
    /\ tasks[t].pc \in AssertSteps
    /\ facts' = Append(facts, TaskFact(t))
    /\ tasks' = [tasks EXCEPT ![t].pc = AfterAssert(tasks[t].pc)]
    /\ UNCHANGED <<engine, cur, mutex_futures_, clips_mutex_, log, ncmds, ticks, ext, agenda, sps_>>

\* mutant: the lock is kept for the cap action
TaskUnlock_keeps_lock(t) ==
    /\ Alive
    /\ tasks[t].pc = "unlock"
    /\ tasks' = [tasks EXCEPT ![t].pc = IF tasks[t].arg[1] = "RETRIEVE_CAP"
                                          THEN "retrieve_cap" ELSE "mount_cap"]
    /\ UNCHANGED <<engine, cur, mutex_futures_, clips_mutex_, facts, log, ncmds, ticks,
                   ext, agenda, sps_>>

\* lock.unlock() before the cap action
TaskUnlock(t) ==
    /\ Alive
    /\ tasks[t].pc = "unlock"
    /\ clips_mutex_' = NoOwner
    /\ tasks' = [tasks EXCEPT ![t].pc = IF tasks[t].arg[1] = "RETRIEVE_CAP"
                                          THEN "retrieve_cap" ELSE "mount_cap"]
    /\ UNCHANGED <<engine, cur, mutex_futures_, facts, log, ncmds, ticks, ext, agenda, sps_>>

\* mutant: the task removes its own entry when it returns
TaskReturn_erasing(t) ==
    /\ Alive
    /\ tasks[t].pc = "return"
    /\ clips_mutex_' = NoOwner
    /\ tasks' = [tasks EXCEPT ![t].pc = "ready"]
    /\ mutex_futures_' = {e \in mutex_futures_ : e[2] # t}
    /\ UNCHANGED <<engine, cur, facts, log, ncmds, ticks, ext, agenda, sps_>>

\* return true: the MutexLocker releases the lock, then the future is ready
TaskReturn(t) ==
    /\ Alive
    /\ tasks[t].pc = "return"
    /\ clips_mutex_' = NoOwner
    /\ tasks' = [tasks EXCEPT ![t].pc = "ready"]
    /\ UNCHANGED <<engine, cur, mutex_futures_, facts, log, ncmds, ticks, ext, agenda, sps_>>

\* -------------------------------------------------- synchronous commands
\* mutant: every command operates on the first station of the table
mps_at_first(machine) == CHOOSE n \in DOMAIN mps_ : TRUE

\* the station object a command function operates on: mps_.at(machine) cast
\* to the station kind of the command
mps_at(machine) == machine

\* the call a command function makes on its station when the station is known
\* and the symbols are recognised: the station, the member function, and the
\* arguments in the order of the call
StationCall(op, machine, arg) ==
    CASE op = "bs-dispense"     -> <<mps_at(machine), "get_base", arg[1]>>
      [] op = "ds-process"      -> <<mps_at(machine), "deliver_product", arg[1]>>
      [] op = "rs-mount-ring"   -> <<mps_at(machine), "mount_ring", arg[1]>>
      [] op = "move-conveyor"   -> <<mps_at(machine), "conveyor_move", arg[2], arg[1]>>
      [] op = "cs-retrieve-cap" -> <<mps_at(machine), "retrieve_cap">>
      [] op = "cs-mount-cap"    -> <<mps_at(machine), "mount_cap">>
      [] op = "set-light"       -> <<mps_at(machine), "set_light", arg[1], arg[2], 0>>
      [] op = "reset-lights"    -> <<mps_at(machine), "reset_light">>

\* mutant: the station is called whatever the argument symbols are
EnterSync_unchecked(op, machine, arg, argerrors) ==
    /\ InRun(<<op, machine, arg>>)
    /\ ncmds' = ncmds + 1
    /\ IF machine \notin DOMAIN mps_
         THEN /\ log' = log \cup {LogError("Invalid station", machine)}
              /\ UNCHANGED <<cur, engine>>
         ELSE /\ cur' = [NoCmd EXCEPT !.op = op, !.machine = machine, !.arg = arg,
                                      !.call = StationCall(op, machine, arg)]
              /\ engine' = "station_call"
              /\ log' = log \cup argerrors
    /\ UNCHANGED <<tasks, mutex_futures_, clips_mutex_, facts, ticks, ext>>

\* entry of a command that calls the station on the rule-engine thread:
\* mps_.at(machine), the argument symbols, then the call with the parsed
\* arguments
EnterSync(op, machine, arg, argerrors) ==
    /\ InRun(<<op, machine, arg>>)
    /\ ncmds' = ncmds + 1
    /\ IF machine \notin DOMAIN mps_
         THEN /\ log' = log \cup {LogError("Invalid station", machine)}
              /\ UNCHANGED <<cur, engine>>
         ELSE IF argerrors # {}
           THEN /\ log' = log \cup argerrors
                /\ UNCHANGED <<cur, engine>>
           ELSE /\ cur' = [NoCmd EXCEPT !.op = op, !.machine = machine, !.arg = arg,
                                        !.call = StationCall(op, machine, arg)]
                /\ engine' = "station_call"
                /\ UNCHANGED log
    /\ UNCHANGED <<tasks, mutex_futures_, clips_mutex_, facts, ticks, ext>>

clips_mps_bs_dispense ==
    \E machine \in Names, color \in BaseColors \cup {Bogus} :
        EnterSync("bs-dispense", machine, <<color>>,
                  IF color \in BaseColors THEN {}
                                          ELSE {LogError("Invalid color", color)})

clips_mps_ds_process ==
    \E machine \in Names, slide \in Slides :
        EnterSync("ds-process", machine, <<slide>>, {})

clips_mps_rs_mount_ring ==
    \E machine \in Names, slide \in Slides :
        EnterSync("rs-mount-ring", machine, <<slide>>, {})

\* the goal position is checked first, the direction only if the goal is known
clips_mps_move_conveyor ==
    \E machine \in Names, goal \in Positions \cup {Bogus},
       direction \in Directions \cup {Bogus} :
        EnterSync("move-conveyor", machine, <<goal, direction>>,
                  IF goal \notin Positions
                    THEN {LogError("Unknown conveyor position", goal)}
                    ELSE IF direction \notin Directions
                      THEN {LogError("Unknown conveyor direction", direction)}
                      ELSE {})

clips_mps_cs_retrieve_cap ==
    \E machine \in Names : EnterSync("cs-retrieve-cap", machine, <<>>, {})

clips_mps_cs_mount_cap ==
    \E machine \in Names : EnterSync("cs-mount-cap", machine, <<>>, {})

\* what clips_mps_set_light logs about its symbols: the colour is checked
\* first, the state only if the colour is known
LightErrors(color, state) ==
    IF color \notin LightColors
      THEN {LogError("Invalid color", color)}
      ELSE IF state \notin LightStates
        THEN {LogError("Invalid state", state)}
        ELSE {}

clips_mps_set_light ==
    \E machine \in Names, color \in LightColors \cup {Bogus},
       state \in LightStates \cup {Bogus} :
        EnterSync("set-light", machine, <<color, state>>, LightErrors(color, state))

clips_mps_reset_lights ==
    \E machine \in Names : EnterSync("reset-lights", machine, <<>>, {})

\* mutant: the lights are set beginning with the green one
LightOrder_green_first == <<"GREEN", "YELLOW", "RED">>

\* the colours in the order clips_mps_set_lights passes them to
\* clips_mps_set_light
LightOrder == <<"RED", "YELLOW", "GREEN">>

\* clips_mps_set_lights is entered with the three state symbols
clips_mps_set_lights ==
    \E machine \in Names, red, yellow, green \in LightStates \cup {Bogus} :
        /\ InRun(<<"set-lights", machine, <<red, yellow, green>>>>)
        /\ ncmds' = ncmds + 1
        /\ cur' = [NoCmd EXCEPT !.op = "set-lights", !.machine = machine,
                                !.arg = <<red, yellow, green>>, !.k = 1]
        /\ engine' = "set_lights"
        /\ UNCHANGED <<tasks, mutex_futures_, clips_mutex_, facts, log, ticks, ext>>

\* mutant: clips_mps_set_lights returns after its first call
AfterSetLight_returns(c) == NoCmd

\* after the k-th call of clips_mps_set_light: the next one, or the return of
\* clips_mps_set_lights after the last
AfterSetLight(c) ==
    IF c.op = "set-lights" /\ c.k < Len(LightOrder)
      THEN [c EXCEPT !.k = @ + 1, !.call = <<>>]
      ELSE NoCmd

\* the k-th call clips_mps_set_light(machine, colour, state) made by
\* clips_mps_set_lights: as the command, it logs and returns on an unknown
\* station or symbol and calls the station otherwise
SetLightsCall ==
    /\ engine = "set_lights"
    /\ LET color == LightOrder[cur.k]
           state == cur.arg[cur.k]
           errors == IF cur.machine \notin DOMAIN mps_
                       THEN {LogError("Invalid station", cur.machine)}
                       ELSE LightErrors(color, state)
       IN IF errors # {}
            THEN /\ log' = log \cup errors
                 /\ cur' = AfterSetLight(cur)
                 /\ engine' = IF cur.k < Len(LightOrder) THEN "set_lights" ELSE "run"
            ELSE /\ cur' = [cur EXCEPT
                              !.call = StationCall("set-light", cur.machine,
                                                   <<color, state>>)]
                 /\ engine' = "station_call"
                 /\ UNCHANGED log
    /\ UNCHANGED <<tasks, mutex_futures_, clips_mutex_, facts, ncmds, ticks, ext, agenda, sps_>>

\* the station call of a synchronous command returns or times out: the
\* command function returns to the rule engine, or clips_mps_set_lights goes
\* on with its next light
StationReturn ==
    /\ engine = "station_call"
    /\ cur' = AfterSetLight(cur)
    /\ engine' = IF cur'.op = "set-lights" THEN "set_lights" ELSE "run"
    /\ UNCHANGED <<tasks, mutex_futures_, clips_mutex_, facts, log, ncmds, ticks, ext, agenda, sps_>>

\* the station call throws: no handler in the command function matches, the
\* exception leaves it and crosses the CLIPS engine's C frames.  Either the
\* process is terminated, or the stack is unwound out of handle_timer and
\* io_service_.run() (or out of start_clips and the constructor, or out of
\* the destructor), releasing the lock on the way
StationThrow ==
    /\ engine = "station_call"
    /\ \E how \in {"terminated", "unwound"} :
         /\ engine' = how
         /\ clips_mutex_' = IF how = "unwound" THEN NoOwner ELSE clips_mutex_
         /\ boot' = [boot EXCEPT !.pc = IF how = "unwound" THEN "unwound" ELSE @]
    /\ UNCHANGED <<cur, tasks, mutex_futures_, facts, log, ncmds, ticks,
                   config, mps_, subs, events, cbs, produced, agenda, sps_>>

\* ------------------------------------------- constructor: the stations
\* the configurations of at most MaxKeys keys; a name that has no key has the
\* default values
KeySequences == UNION {[1..k -> ConfigNames] : k \in 0..MaxKeys}
KeyNames(keys) == {keys[i] : i \in 1..Len(keys)}
Configurations ==
    {c \in [enable : BOOLEAN, simulation : BOOLEAN, keys : KeySequences,
            type : [ConfigNames -> ConfigTypes], active : [ConfigNames -> BOOLEAN],
            connection : {FixedConfig.connection}] :
        /\ ~c.enable => c.keys = <<>>
        /\ \A n \in ConfigNames \ KeyNames(c.keys) : c.type[n] = "CS" /\ c.active[n]}

\* MachineFactory::create_machine accepts the five station kinds
ValidType(mpstype) == mpstype \in Kinds

\* the constructor's locals before the configuration is searched
InitialBoot ==
    [pc |-> "config", k |-> 0,
     mps_configs |-> {}, ignored_mps_configs |-> {},
     mps_connections |-> [n \in ConfigNames |-> "none"],
     pending |-> "none",
     created |-> [n \in ConfigNames |-> 0],
     connects |-> [n \in ConfigNames |-> 0],
     got |-> {}, exception |-> <<>>,
     connection_string |-> [n \in ConfigNames |-> "none"],
     armed |-> {}, functions |-> FALSE]

\* mutant: a name is not looked up in mps_configs before it is configured
ConfigSeen_never(name) ==
    name \in boot.ignored_mps_configs

\* the name of the key has been handled: it is in one of the two sets
ConfigSeen(name) ==
    name \in boot.mps_configs \cup boot.ignored_mps_configs

\* mutant: the common setting is read after the one of the station
connection_string_common_last(cfg_name) ==
    LET specific == config.connection[cfg_name]
        common == config.connection["/llsfrb/mps/connection"]
        initial == "plc"
        first == IF specific # "absent" THEN specific ELSE initial
    IN IF common # "absent" THEN common ELSE first

\* the connection mode passed to create_machine: "plc", overwritten by the
\* common setting if get_string finds it, then by the setting of the station
\* if get_string finds it
connection_string(cfg_name) ==
    LET common == config.connection["/llsfrb/mps/connection"]
        specific == config.connection[cfg_name]
        initial == "plc"
        first == IF common # "absent" THEN common ELSE initial
    IN IF specific # "absent" THEN specific ELSE first

\* if (config_->get_bool("/llsfrb/mps/enable")), then one round of
\* while (i->next()) up to create_machine; after the last key the loop over
\* mps_connections is entered
ConfigNext ==
    /\ boot.pc = "config"
    /\ IF ~config.enable
         THEN boot' = [boot EXCEPT !.pc = "clips"]
         ELSE IF boot.k = Len(config.keys)
           THEN boot' = [boot EXCEPT !.pc = "wait"]
           ELSE LET cfg_name == config.keys[boot.k + 1] IN
             IF ConfigSeen(cfg_name)
               THEN boot' = [boot EXCEPT !.k = @ + 1]
               ELSE IF ~config.active[cfg_name]
                 THEN boot' = [boot EXCEPT !.k = @ + 1,
                                  !.ignored_mps_configs = @ \cup {cfg_name}]
                 ELSE IF ~ValidType(config.type[cfg_name])
                   THEN boot' = [boot EXCEPT
                                   !.pc = "failed",
                                   !.exception = <<"Unknown machine type",
                                                   config.type[cfg_name]>>]
                   ELSE boot' = [boot EXCEPT !.k = @ + 1, !.pc = "insert",
                                   !.pending = cfg_name,
                                   !.connection_string[cfg_name] =
                                       connection_string(cfg_name),
                                   !.created[cfg_name] = @ + 1]
    /\ UNCHANGED <<engine_vars, clips_mutex_, facts, log, config, mps_, subs, status_vars, agenda, sps_>>

\* mps_[cfg_name] = std::move(mps); mps_configs.insert(cfg_name);
\* mps_connections[cfg_name] = std::async(std::launch::async, ...)
ConfigInsert ==
    /\ boot.pc = "insert"
    /\ mps_' = [n \in DOMAIN mps_ \cup {boot.pending} |->
                  IF n = boot.pending THEN config.type[n] ELSE mps_[n]]
    /\ boot' = [boot EXCEPT !.pc = "config", !.pending = "none",
                  !.mps_configs = @ \cup {boot.pending},
                  !.mps_connections[boot.pending] = "launched",
                  !.connects[boot.pending] = @ + 1]
    /\ UNCHANGED <<engine_vars, clips_mutex_, facts, log, config, subs, status_vars, agenda, sps_>>

\* the connection thread of a station evaluates mps_[cfg_name] and calls
\* connect_PLC()
ConnectLookup(name) ==
    /\ Alive
    /\ boot.mps_connections[name] = "launched"
    /\ boot' = [boot EXCEPT !.mps_connections[name] = "connecting"]
    /\ UNCHANGED <<engine_vars, clips_mutex_, facts, log, config, mps_, subs, status_vars, agenda, sps_>>

\* the same while the constructor is writing mps_ for another station: the
\* two accesses to the map are not synchronised; besides the station itself
\* (ConnectLookup) the lookup can produce a null pointer, and the process ends
ConnectLookupRaced(name) ==
    /\ Alive
    /\ boot.mps_connections[name] = "launched"
    /\ boot.pc = "insert"
    /\ engine' = "terminated"
    /\ UNCHANGED <<cur, tasks, mutex_futures_, ncmds, ticks, clips_mutex_, facts, log,
                   config, mps_, boot, subs, status_vars, agenda, sps_>>

\* connect_PLC returns true or false, or throws
ConnectReturn(name) ==
    /\ Alive
    /\ boot.mps_connections[name] = "connecting"
    /\ \E result \in {"true", "false", "threw"} :
         boot' = [boot EXCEPT !.mps_connections[name] = result]
    /\ UNCHANGED <<engine_vars, clips_mutex_, facts, log, config, mps_, subs, status_vars, agenda, sps_>>

\* mutant: the failure is reported under the name configured last
FailureName_last_configured(name) ==
    config.keys[Len(config.keys)]

\* the name startup reports for a future: the key of the map element
FailureName(name) ==
    name

\* mutant: a failed connection is logged and the loop goes on
WaitConnection_no_throw(name) ==
    /\ boot.pc = "wait"
    /\ name \in boot.mps_configs \ boot.got
    /\ boot.mps_connections[name] \in {"true", "false", "threw"}
    /\ boot' = [boot EXCEPT !.got = @ \cup {name}]
    /\ log' = log \cup {IF boot.mps_connections[name] = "true"
                           THEN <<"info", "RefBox", "Connected to", name>>
                           ELSE <<"error", "RefBox", "Failed to connect to", name>>}
    /\ UNCHANGED <<engine_vars, clips_mutex_, facts, config, mps_, subs, status_vars, agenda, sps_>>

\* one round of for (auto &[name, fut] : mps_connections): fut.wait() returns
\* when the connection thread has ended; fut.get() is true, false, or throws
\* what connect_PLC threw
WaitConnection(name) ==
    /\ boot.pc = "wait"
    /\ name \in boot.mps_configs \ boot.got
    /\ boot.mps_connections[name] \in {"true", "false", "threw"}
    /\ CASE boot.mps_connections[name] = "true" ->
              /\ log' = log \cup {<<"info", "RefBox", "Connected to", name>>}
              /\ boot' = [boot EXCEPT !.got = @ \cup {name}]
         [] boot.mps_connections[name] = "false" ->
              /\ log' = log \cup {<<"error", "RefBox", "Failed to connect to",
                                     FailureName(name)>>}
              /\ boot' = [boot EXCEPT !.got = @ \cup {name}, !.pc = "failed",
                            !.exception = <<"Failed to connect to", FailureName(name)>>]
         [] boot.mps_connections[name] = "threw" ->
              /\ boot' = [boot EXCEPT !.got = @ \cup {name}, !.pc = "failed",
                            !.exception = <<"connect_PLC", name>>]
              /\ UNCHANGED log
    /\ UNCHANGED <<engine_vars, clips_mutex_, facts, config, mps_, subs, status_vars, agenda, sps_>>

\* the loop over mps_connections has ended
WaitDone ==
    /\ boot.pc = "wait"
    /\ boot.got = boot.mps_configs
    /\ log' = log \cup {<<"info", "RefBox", "Connected to all machines">>}
    /\ boot' = [boot EXCEPT !.pc = "clips"]
    /\ UNCHANGED <<engine_vars, clips_mutex_, facts, config, mps_, subs, status_vars, agenda, sps_>>

\* --------------------------------------- setup_clips, start_clips, run()
\* mutant: the environment is set up without awaiting the connections
MakeClips_unconnected ==
    /\ boot.pc \in {"wait", "clips"}
    /\ boot' = [boot EXCEPT !.pc = "setup_clips"]
    /\ UNCHANGED <<engine_vars, clips_mutex_, facts, log, config, mps_, subs, status_vars, agenda, sps_>>

\* clips_ = std::make_unique<CLIPS::Environment>(); setup_protobuf_comm()
MakeClips ==
    /\ boot.pc = "clips"
    /\ boot' = [boot EXCEPT !.pc = "setup_clips"]
    /\ UNCHANGED <<engine_vars, clips_mutex_, facts, log, config, mps_, subs, status_vars, agenda, sps_>>

\* setup_clips: fawkes::MutexLocker lock(&clips_mutex_)
SetupLock ==
    /\ boot.pc = "setup_clips"
    /\ clips_mutex_ = NoOwner
    /\ clips_mutex_' = Main
    /\ boot' = [boot EXCEPT !.pc = "add_function"]
    /\ UNCHANGED <<engine_vars, facts, log, config, mps_, subs, status_vars, agenda, sps_>>

\* mutant: the command functions and the callbacks are added in simulation too
SetupFunctions_always ==
    /\ boot.pc = "add_function"
    /\ boot' = [boot EXCEPT
                  !.functions = TRUE,
                  !.pc = IF DOMAIN mps_ = {} THEN "setup_return" ELSE "addCallback"]
    /\ UNCHANGED <<engine_vars, clips_mutex_, facts, log, config, mps_, subs, status_vars, agenda, sps_>>

\* if (!simulation) { clips_->add_function("mps-...", ...) ...: the command
\* functions are registered, then the loop over mps_ is entered
SetupFunctions ==
    /\ boot.pc = "add_function"
    /\ boot' = [boot EXCEPT
                  !.functions = ~config.simulation,
                  !.pc = IF config.simulation \/ DOMAIN mps_ = {}
                           THEN "setup_return" ELSE "addCallback"]
    /\ UNCHANGED <<engine_vars, clips_mutex_, facts, log, config, mps_, subs, status_vars, agenda, sps_>>

\* one round of for (auto &mps : mps_): the addCallback calls of a station
SetupCallbacks(name) ==
    /\ boot.pc = "addCallback"
    /\ name \in DOMAIN mps_ \ boot.armed
    /\ subs' = subs \cup SubscriptionsFor(name)
    /\ boot' = [boot EXCEPT
                  !.armed = @ \cup {name},
                  !.pc = IF boot.armed \cup {name} = DOMAIN mps_
                           THEN "setup_return" ELSE "addCallback"]
    /\ UNCHANGED <<engine_vars, clips_mutex_, facts, log, config, mps_, status_vars, agenda, sps_>>

\* setup_clips returns: its MutexLocker releases the lock
SetupReturn ==
    /\ boot.pc = "setup_return"
    /\ clips_mutex_' = NoOwner
    /\ boot' = [boot EXCEPT !.pc = "start_clips"]
    /\ UNCHANGED <<engine_vars, facts, log, config, mps_, subs, status_vars, agenda, sps_>>

\* start_clips: fawkes::MutexLocker lock(&clips_mutex_)
StartClipsLock ==
    /\ boot.pc = "start_clips"
    /\ clips_mutex_ = NoOwner
    /\ clips_mutex_' = Main
    /\ boot' = [boot EXCEPT !.pc = "batch_evaluate"]
    /\ UNCHANGED <<engine_vars, facts, log, config, mps_, subs, status_vars, agenda, sps_>>

\* clips_->batch_evaluate(init.clp): on failure a warning is logged and the
\* constructor throws, the MutexLocker releasing the lock
StartClipsBatch ==
    /\ boot.pc = "batch_evaluate"
    /\ \E loaded \in BOOLEAN :
         IF loaded
           THEN /\ boot' = [boot EXCEPT !.pc = "assert_init"]
                /\ UNCHANGED <<clips_mutex_, log>>
           ELSE /\ boot' = [boot EXCEPT
                              !.pc = "failed",
                              !.exception = <<"Failed to initialize CLIPS environment">>]
                /\ clips_mutex_' = NoOwner
                /\ log' = log \cup {<<"warn", "RefBox",
                                       "Failed to initialize CLIPS environment">>}
    /\ UNCHANGED <<engine_vars, facts, config, mps_, subs, status_vars, agenda, sps_>>

\* clips_->assert_fact("(init)"); refresh_agenda(); enter run()
StartClipsAssert ==
    /\ boot.pc = "assert_init"
    /\ facts' = Append(facts, <<"init">>)
    /\ engine' = "run"
    /\ boot' = [boot EXCEPT !.pc = "start_run"]
    /\ UNCHANGED <<cur, tasks, mutex_futures_, ncmds, ticks, clips_mutex_, log,
                   config, mps_, subs, status_vars, agenda, sps_>>

\* run() returns, start_clips returns and releases the lock; the constructor
\* finishes
StartClipsReturn ==
    /\ boot.pc = "start_run"
    /\ engine = "run"
    /\ clips_mutex_' = NoOwner
    /\ engine' = "idle"
    /\ boot' = [boot EXCEPT !.pc = "constructed"]
    /\ UNCHANGED <<cur, tasks, mutex_futures_, ncmds, ticks, facts, log,
                   config, mps_, subs, status_vars, agenda, sps_>>

\* LLSFRefBox::run: start_timer(); io_service_.run()
run ==
    /\ boot.pc = "constructed"
    /\ boot' = [boot EXCEPT !.pc = "running"]
    /\ UNCHANGED <<engine_vars, clips_mutex_, facts, log, config, mps_, subs, status_vars, agenda, sps_>>

\* ------------------------------------------------ handle_signal, destructor
\* SIGINT or SIGTERM between two handlers: timer_.cancel(); io_service_.stop();
\* io_service_.run() returns
handle_signal ==
    /\ boot.pc = "running"
    /\ engine = "idle"
    /\ boot' = [boot EXCEPT !.pc = "stopped"]
    /\ UNCHANGED <<engine_vars, clips_mutex_, facts, log, config, mps_, subs, status_vars, agenda, sps_>>

\* ~LLSFRefBox: fawkes::MutexLocker lock(&clips_mutex_)
DestructorLock ==
    /\ boot.pc = "stopped"
    /\ clips_mutex_ = NoOwner
    /\ clips_mutex_' = Main
    /\ boot' = [boot EXCEPT !.pc = "assert_finalize"]
    /\ UNCHANGED <<engine_vars, facts, log, config, mps_, subs, status_vars, agenda, sps_>>

\* clips_->assert_fact("(finalize)"); refresh_agenda(); enter run()
DestructorAssert ==
    /\ boot.pc = "assert_finalize"
    /\ facts' = Append(facts, <<"finalize">>)
    /\ engine' = "run"
    /\ boot' = [boot EXCEPT !.pc = "finalize_run"]
    /\ UNCHANGED <<cur, tasks, mutex_futures_, ncmds, ticks, clips_mutex_, log,
                   config, mps_, subs, status_vars, agenda, sps_>>

\* run() returns, finalize_clips_logger, the lock's scope ends; the body of
\* the destructor ends and the members are destroyed
DestructorUnlock ==
    /\ boot.pc = "finalize_run"
    /\ engine = "run"
    /\ clips_mutex_' = NoOwner
    /\ engine' = "idle"
    /\ boot' = [boot EXCEPT !.pc = "members"]
    /\ UNCHANGED <<cur, tasks, mutex_futures_, ncmds, ticks, facts, log,
                   config, mps_, subs, status_vars, agenda, sps_>>

\* the futures in mutex_futures_ are destroyed: the destructor of a future
\* that std::async returned waits until its task has ended
DestroyFutures ==
    /\ boot.pc = "members"
    /\ \A e \in mutex_futures_ : FutureReady(e[2])
    /\ mutex_futures_' = {}
    /\ boot' = [boot EXCEPT !.pc = "destroyed"]
    /\ UNCHANGED <<engine, cur, tasks, ncmds, ticks, clips_mutex_, facts, log,
                   config, mps_, subs, status_vars, agenda, sps_>>

\* ----------------------------------------------------- status callbacks
\* what OpcUtils::ReturnValue holds in the model
RawValues == {0, 1}
\* printf %u
FormatUnsigned(v) == IF v = 0 THEN "0" ELSE "1"
\* if (ret->bool_s) ready = "TRUE"; else ready = "FALSE";
FormatBool(v) == IF v # 0 THEN "TRUE" ELSE "FALSE"

Produced == LET RECURSIVE Sum(_)
                Sum(S) == IF S = {} THEN 0
                          ELSE LET n == CHOOSE n \in S : TRUE
                               IN Len(produced[n]) + Sum(S \ {n})
            IN Sum(ConfigNames)

\* the value of a subscribed register of a station changes: the station's
\* connection queues a notification for its notification thread
StationChange(name, reg, ret) ==
    /\ Alive
    /\ boot.pc \notin {"failed", "destroyed"}
    /\ <<name, reg>> \in subs
    /\ Produced < MaxEvents
    /\ events' = [events EXCEPT ![name] = Append(@, <<reg, ret>>)]
    /\ produced' = [produced EXCEPT ![name] = Append(@, <<reg, ret>>)]
    /\ UNCHANGED <<engine_vars, clips_mutex_, facts, log, config, mps_, boot, subs, cbs, agenda, sps_>>

\* the notification thread of a station calls the callback of the register
\* with the oldest notification not yet delivered
CallbackEnter(name) ==
    /\ Alive
    /\ cbs[name].pc = "idle"
    /\ events[name] # <<>>
    /\ cbs' = [cbs EXCEPT ![name] = [pc |-> "lock", reg |-> Head(events[name])[1],
                                      ret |-> Head(events[name])[2]]]
    /\ events' = [events EXCEPT ![name] = Tail(@)]
    /\ UNCHANGED <<engine_vars, clips_mutex_, facts, log, config, mps_, boot, subs,
                   produced, agenda, sps_>>

\* mutant: the callback asserts without taking the lock
CallbackLock_unlocked(name) ==
    /\ Alive
    /\ cbs[name].pc = "lock"
    /\ cbs' = [cbs EXCEPT ![name].pc = "assert_fact_f"]
    /\ UNCHANGED <<engine_vars, clips_mutex_, facts, log, config, mps_, boot, subs,
                   events, produced, agenda, sps_>>

\* mutant: the callback does not wait for a busy lock; it hands the
\* notification back to be delivered later and returns
CallbackLock_requeue(name) ==
    /\ Alive
    /\ cbs[name].pc = "lock"
    /\ IF clips_mutex_ = NoOwner
         THEN /\ clips_mutex_' = CbThread[name]
              /\ cbs' = [cbs EXCEPT ![name].pc = "assert_fact_f"]
              /\ UNCHANGED events
         ELSE /\ events' = [events EXCEPT
                              ![name] = Append(@, <<cbs[name].reg, cbs[name].ret>>)]
              /\ cbs' = [cbs EXCEPT ![name] = NoCb]
              /\ UNCHANGED clips_mutex_
    /\ UNCHANGED <<engine_vars, facts, log, config, mps_, boot, subs, produced, agenda, sps_>>

\* fawkes::MutexLocker clips_lock(&clips_mutex_): waits for the lock
CallbackLock(name) ==
    /\ Alive
    /\ cbs[name].pc = "lock"
    /\ clips_mutex_ = NoOwner
    /\ clips_mutex_' = CbThread[name]
    /\ cbs' = [cbs EXCEPT ![name].pc = "assert_fact_f"]
    /\ UNCHANGED <<engine_vars, facts, log, config, mps_, boot, subs, events, produced, agenda, sps_>>

\* mutant: the lambdas capture a copy of the loop variable that is gone when
\* they run; every callback names the station the loop ended with
StatusFact_last_station(name, reg, ret) ==
    <<"mps-status-feedback", "C-RS1", reg,
      IF reg \in {"READY", "BUSY"} THEN FormatBool(ret) ELSE FormatUnsigned(ret)>>

\* the fact a callback asserts: mps.first and the value of *ret
StatusFact(name, reg, ret) ==
    <<"mps-status-feedback", name, reg,
      IF reg \in {"READY", "BUSY"} THEN FormatBool(ret) ELSE FormatUnsigned(ret)>>

\* clips_->assert_fact_f("(mps-status-feedback %s ... )", mps.first.c_str(), ...)
CallbackAssert(name) ==
    /\ Alive
    /\ cbs[name].pc = "assert_fact_f"
    /\ facts' = Append(facts, StatusFact(name, cbs[name].reg, cbs[name].ret))
    /\ cbs' = [cbs EXCEPT ![name].pc = "return"]
    /\ UNCHANGED <<engine_vars, clips_mutex_, log, config, mps_, boot, subs,
                   events, produced, agenda, sps_>>

\* the callback returns: clips_lock releases the lock if it holds it
CallbackReturn(name) ==
    /\ Alive
    /\ cbs[name].pc = "return"
    /\ clips_mutex_' = IF clips_mutex_ = CbThread[name] THEN NoOwner ELSE clips_mutex_
    /\ cbs' = [cbs EXCEPT ![name] = NoCb]
    /\ UNCHANGED <<engine_vars, facts, log, config, mps_, boot, subs, events, produced, agenda, sps_>>

\* ===================================================================
\* Properties
\* ===================================================================
Completed(t) == tasks[t].pc \in {"ready", "threw"}
Executing(t) == tasks[t].pc \notin {"none", "ready", "threw"}
ExecutingOn(s) == {t \in TaskIds : Executing(t) /\ tasks[t].station = s}
EntriesOf(s) == {e \in mutex_futures_ : e[1] = s}
CountFacts(f) == Cardinality({i \in 1..Len(facts) : facts[i] = f})
CompletionFact(t) ==
    IF tasks[t].op = "deliver"
      THEN <<"mps-feedback", "mps-deliver", "success", tasks[t].station>>
      ELSE <<"mps-feedback", tasks[t].station, tasks[t].arg[1], "DONE">>
\* the statements of a command function that read or write mutex_futures_
AtTable == engine \in {"mutex_future_ready", "rejected", "async", "assign"}
\* the error lines the command functions write for a bad station or argument
ArgumentErrorTexts == {"Invalid station", "Invalid operation", "Invalid color",
                       "Invalid state", "Unknown conveyor position",
                       "Unknown conveyor direction"}

\* C1: single flight.  For every station the pending table holds at most one
\* entry and at most one asynchronously dispatched task (reset, deliver or
\* cs-process, whichever) is executing.
C1_SingleFlight ==
    \A s \in Stations :
        /\ Cardinality(EntriesOf(s)) <= 1
        /\ Cardinality(ExecutingOn(s)) <= 1

\* C1 witness: a deliver has just been turned away because a reset of the
\* same station is still executing.
C1_Witness ==
    /\ engine = "rejected"
    /\ cur.op = "deliver"
    /\ \E t \in TaskIds : /\ <<cur.machine, t>> \in mutex_futures_
                          /\ Executing(t)
                          /\ tasks[t].op = "reset"

\* C2 (as claimed): whatever the command, a station never has a second
\* command's operation started while an earlier command on it is outstanding:
\* counting the executing tasks of the station and the station call of a
\* synchronous command on the rule-engine thread, at most one is in progress.
C2_NoSecondCommandWhileOutstanding ==
    \A s \in Stations :
        Cardinality(ExecutingOn(s))
          + (IF engine = "station_call" /\ cur.machine = s THEN 1 ELSE 0) <= 1

\* C3: once the accepted command of a station has completed (returned or
\* thrown), the next command that reaches the readiness check is accepted: the
\* entry is erased, a task is started and its future is stored.
C3_AcceptedAfterCompletion ==
    [][ /\ ( /\ engine = "mutex_future_ready"
             /\ engine' # engine
             /\ \A e \in EntriesOf(cur.machine) : Completed(e[2]) )
           => ( /\ engine' = "async"
                /\ \A e \in mutex_futures_' : e[1] # cur.machine )
        /\ (engine = "async" /\ engine' # engine)
           => ( /\ engine' = "assign"
                /\ cur'.fut \in TaskIds
                /\ tasks[cur'.fut].pc = "none"
                /\ tasks'[cur'.fut].station = cur.machine
                /\ tasks'[cur'.fut].op = cur.op
                /\ tasks'[cur'.fut].pc \in StationSteps )
        /\ (engine = "assign" /\ engine' # engine)
           => <<cur.machine, cur.fut>> \in mutex_futures_' ]_vars

\* C3 witness: a command has been accepted on a station whose previous
\* command ended by an exception.
C3_Witness ==
    /\ engine = "assign"
    /\ \E t \in TaskIds : /\ tasks[t].station = cur.machine
                          /\ tasks[t].pc = "threw"
                          /\ t # cur.fut

\* C4: the step that rejects a submission, and the return that follows it,
\* start no task, invoke no station operation, assert no fact and leave the
\* pending table, the occupying entry included, as it was.
C4_RejectionHasNoEffect ==
    [][ (engine' # engine /\ (engine' = "rejected" \/ engine = "rejected"))
          => /\ UNCHANGED <<tasks, facts, mutex_futures_, clips_mutex_>>
             /\ engine' \in {"rejected", "run"} ]_vars

\* C4 witness: a submission has been rejected and the occupying entry, whose
\* task is still executing, is in the table.
C4_Witness ==
    /\ engine = "rejected"
    /\ \E e \in EntriesOf(cur.machine) : Executing(e[2])
    /\ Cardinality({t \in TaskIds : tasks[t].pc # "none"}) = 1

\* C5 (as claimed): when a task has ended by an exception, the exception has
\* been logged (an error line other than the argument errors of the command
\* functions is in the log) and the slot of its station is free for a new
\* command.
C5_TaskExceptionLoggedAndSlotFree ==
    \A t \in TaskIds :
        tasks[t].pc = "threw"
          => /\ \E l \in log : l[3] \notin ArgumentErrorTexts
             /\ <<tasks[t].station, t>> \in mutex_futures_
                  => mutex_future_ready(tasks[t].station)

\* C6 (as claimed): no failure of a station call leaves a command function:
\* the rule-engine thread is never terminated by, or unwound out of the rule
\* engine by, an exception of a station call.
C6_NoFailureEscapes ==
    engine \notin {"terminated", "unwound"}

C8_CompletionFactBeforeSlotFree ==
    \A t \in TaskIds :
        (tasks[t].pc = "ready" /\ tasks[t].op \in {"deliver", "cs-process"})
          => CountFacts(CompletionFact(t))
               >= Cardinality({u \in TaskIds :
                                 /\ tasks[u].pc = "ready"
                                 /\ tasks[u].op = tasks[t].op
                                 /\ tasks[u].station = tasks[t].station
                                 /\ tasks[u].arg = tasks[t].arg})

\* C8 witness: a command is accepted on a station whose previous deliver has
\* returned and whose success fact is in the fact base.
C8_Witness ==
    /\ engine = "async"
    /\ \E t \in TaskIds : /\ tasks[t].station = cur.machine
                          /\ tasks[t].op = "deliver"
                          /\ tasks[t].pc = "ready"
                          /\ CountFacts(CompletionFact(t)) = 1

\* C9 (as claimed): the pending table has a guard of its own: a thread at a
\* statement that reads or writes the table holds a lock other than the
\* fact-base lock.
C9_TableHasOwnGuard ==
    AtTable => \E l \in LocksHeld(Main) : l # "clips_mutex_"

\* C9 (amended): the table has no lock of its own; it is read and written
\* only by the rule-engine thread inside clips_->run(), and that thread holds
\* clips_mutex_ at every such statement, so the check-and-set of a submission
\* is not interleaved with another one: between the check and the set the
\* station has no executing task but the one just started.
C9_TableAccessUnderClipsMutex ==
    /\ AtTable => LocksHeld(Main) = {"clips_mutex_"}
    /\ engine = "async" => ExecutingOn(cur.machine) = {}
    /\ engine = "assign" => ExecutingOn(cur.machine) \subseteq {cur.fut}

\* C9 witness: the rule-engine thread is between the check and the set of a
\* submission while a task of another command waits for clips_mutex_.
C9_Witness ==
    /\ engine = "assign"
    /\ clips_mutex_ = Main
    /\ \E t \in TaskIds : tasks[t].pc \in LockSteps

MainInsideClips ==
    \/ engine \in {"assert_time", "run", "mutex_future_ready", "rejected", "async",
                    "assign", "station_call"}
    \/ boot.pc \in {"add_function", "addCallback", "setup_return", "batch_evaluate",
                     "assert_init", "start_run", "assert_finalize", "finalize_run"}
InsideClips ==
    (IF MainInsideClips THEN {Main} ELSE {})
      \cup {t \in TaskIds : tasks[t].pc \in AssertSteps}
      \cup {CbThread[n] : n \in {m \in ConfigNames : cbs[m].pc = "assert_fact_f"}}

\* C11: fact-base mutual exclusion.  Every thread inside an assertion or an
\* evaluation on the CLIPS environment (a status callback, a command task, the
\* timer tick, setup_clips and start_clips, the destructor) holds
\* clips_mutex_, so at most one thread is inside; a callback holds the lock
\* from just before its assertion until it returns and at no other time.
C11_FactBaseMutualExclusion ==
    /\ \A thread \in InsideClips : clips_mutex_ = thread
    /\ Cardinality(InsideClips) <= 1
    /\ \A n \in ConfigNames :
         clips_mutex_ = CbThread[n] <=> cbs[n].pc \in {"assert_fact_f", "return"}

\* C11 witness: a callback asserts its fact while the callback of the other
\* station and a command task wait for the lock and the destructor is about
\* to take it.
C11_Witness ==
    /\ boot.pc = "stopped"
    /\ \E n, m \in ConfigNames : /\ cbs[n].pc = "assert_fact_f"
                                  /\ cbs[m].pc = "lock"
    /\ \E t \in TaskIds : tasks[t].pc \in LockSteps

\* C12 (as claimed): a status callback never has to wait for a command: no
\* callback is waiting for clips_mutex_ while the thread that executes a
\* station call of a command holds it.
C12_CallbackNeverWaitsForCommand ==
    \A n \in ConfigNames :
        ~(cbs[n].pc = "lock" /\ engine = "station_call" /\ clips_mutex_ = Main)

\* the status facts of a station in the fact base, in the order asserted
Emitted(n) ==
    SelectSeq(facts, LAMBDA f : Len(f) = 4 /\ f[1] = "mps-status-feedback" /\ f[2] = n)
\* the notifications of a station whose callback has asserted
NumAsserted(n) ==
    Len(produced[n]) - Len(events[n])
      - (IF cbs[n].pc \in {"lock", "assert_fact_f"} THEN 1 ELSE 0)
\* the text of a register value in a status fact
ExpectedText ==
    [reg \in Registers |->
       IF reg \in {"READY", "BUSY"} THEN [v \in RawValues |-> IF v = 1 THEN "TRUE" ELSE "FALSE"]
                                    ELSE [v \in RawValues |-> IF v = 1 THEN "1" ELSE "0"]]
ExpectedFact(n, e) == <<"mps-status-feedback", n, e[1], ExpectedText[e[1]][e[2]]>>
StatusFacts ==
    {<<"mps-status-feedback", n, reg, txt>> :
        n \in ConfigNames, reg \in Registers, txt \in {"TRUE", "FALSE", "0", "1"}}

\* C13: every value change whose callback has asserted is in the fact base
\* exactly once, with the name of its station, its register and its value:
\* each status fact occurs as often as asserted notifications of its station
\* map to it; nothing is lost, duplicated or attributed to another station.
C13_OneFactPerChange ==
    \A f \in StatusFacts :
        CountFacts(f) = Cardinality({i \in 1..NumAsserted(f[2]) :
                                       ExpectedFact(f[2], produced[f[2]][i]) = f})

\* C13 witness: a barcode change on one station and a ready change on
\* another have both been emitted, one right after the other, each fact with
\* its own station and value.
C13_Witness ==
    \E n, m \in Stations :
        /\ n # m
        /\ produced[n] = <<<<"BARCODE", 1>>>>
        /\ produced[m] = <<<<"READY", 0>>>>
        /\ cbs[n].pc = "idle" /\ cbs[m].pc = "return"
        /\ Len(facts) >= 2
        /\ facts[Len(facts) - 1] = <<"mps-status-feedback", n, "BARCODE", "1">>
        /\ facts[Len(facts)] = <<"mps-status-feedback", m, "READY", "FALSE">>

\* C14: the facts of one register of one station are in the fact base in the
\* order in which the station's connection produced the notifications: they
\* are the facts of a prefix of the notifications produced for that register.
C14_SameRegisterInOrder ==
    \A n \in ConfigNames, reg \in Registers :
        LET E == SelectSeq(Emitted(n), LAMBDA f : f[3] = reg)
            P == SelectSeq(produced[n], LAMBDA e : e[1] = reg)
        IN /\ Len(E) <= Len(P)
           /\ \A i \in 1..Len(E) : E[i] = ExpectedFact(n, P[i])

\* C14 witness: the ready register of a station changed to true and then to
\* false, and both facts are in the fact base, in that order.
C14_Witness ==
    \E n \in Stations :
        /\ produced[n] = <<<<"READY", 1>>, <<"READY", 0>>>>
        /\ Emitted(n) = <<<<"mps-status-feedback", n, "READY", "TRUE">>,
                          <<"mps-status-feedback", n, "READY", "FALSE">>>>

\* the names with an active configuration
ActiveNames == {n \in KeyNames(config.keys) : config.active[n]}
\* the constructor is in the loop over the configuration or over the futures
ConnectionPhase == boot.pc \in {"config", "insert", "wait"}
\* the loop of setup_clips over mps_ has ended
SetupDone == boot.pc \in {"setup_return", "start_clips", "batch_evaluate",
                          "assert_init", "start_run", "constructed"}
ConnectStarted(n) == boot.mps_connections[n] \in {"connecting", "true", "false", "threw"}
AllMachinesLine == <<"info", "RefBox", "Connected to all machines">>

\* C15 (as claimed): when setup_clips has added the callbacks (simulation
\* off), every station has the ready, busy and barcode callbacks, and it has
\* the slide-counter callback exactly if its kind is Ring.
C15_SlideCounterIffRing ==
    (SetupDone /\ ~config.simulation)
      => \A n \in DOMAIN mps_ :
           /\ {<<n, "READY">>, <<n, "BUSY">>, <<n, "BARCODE">>} \subseteq subs
           /\ <<n, "SLIDE-COUNTER">> \in subs <=> mps_[n] = "RS"

\* C16: startup gets past the connection phase only if connect_PLC of every
\* station returned true: when "Connected to all machines" is logged, or the
\* constructor is beyond the loop over the futures without an exception, or
\* the environment has been set up or used, no connect has returned false or
\* thrown; a constructor that has failed has thrown an exception.
C16_ConnectFailureFailsStartup ==
    /\ ( \/ AllMachinesLine \in log
         \/ ~ConnectionPhase /\ boot.pc # "failed"
         \/ boot.functions
         \/ subs # {}
         \/ facts # <<>> )
         => \A n \in DOMAIN mps_ : boot.mps_connections[n] = "true"
    /\ boot.pc = "failed" => boot.exception # <<>>

\* C16 witness: of two stations one has connected and is logged, the connect
\* of the other returned false and the constructor has thrown.
C16_Witness ==
    \E n, m \in ConfigNames :
        /\ boot.pc = "failed"
        /\ boot.mps_connections[n] = "true" /\ n \in boot.got
        /\ boot.mps_connections[m] = "false" /\ m \in boot.got
        /\ AllMachinesLine \notin log

\* C17: the station named by the error line and by the exception of a failed
\* connection is one whose connect_PLC returned false.
C17_FailureNamesFailedStation ==
    \A n \in ConfigNames :
        ( \/ <<"error", "RefBox", "Failed to connect to", n>> \in log
          \/ boot.exception = <<"Failed to connect to", n>> )
          => boot.mps_connections[n] = "false"

\* C17 witness: two stations are configured, the first connected, the second
\* did not, and the error line and the exception name the second.
C17_Witness ==
    /\ Len(config.keys) = 2
    /\ boot.mps_connections[config.keys[1]] = "true"
    /\ boot.mps_connections[config.keys[2]] = "false"
    /\ <<"error", "RefBox", "Failed to connect to", config.keys[2]>> \in log
    /\ boot.exception = <<"Failed to connect to", config.keys[2]>>

\* C18 (as claimed): when an active station is configured with an unknown
\* kind, connect_PLC is started for no station.
C18_NoConnectBeforeConfigError ==
    (\E n \in ActiveNames : config.type[n] \notin Kinds)
      => \A n \in ConfigNames : ~ConnectStarted(n)

\* C19: every name is created and connected at most once; a name without an
\* active configuration has no station and no connection; and once a future
\* has been read, or the loop over the configuration has been left without an
\* exception, every active name has exactly one station and one connection
\* launched.
C19_OneStationOneConnectPerActiveName ==
    /\ \A n \in ConfigNames : boot.created[n] <= 1 /\ boot.connects[n] <= 1
    /\ \A n \in ConfigNames \ ActiveNames :
         /\ boot.created[n] = 0 /\ boot.connects[n] = 0
         /\ n \notin DOMAIN mps_
         /\ boot.mps_connections[n] = "none"
    /\ (boot.got # {} \/ boot.pc \notin {"config", "insert", "failed"})
         => \A n \in ActiveNames :
              /\ boot.created[n] = 1 /\ boot.connects[n] = 1
              /\ n \in DOMAIN mps_
              /\ boot.mps_connections[n] # "none"

\* C19 witness: two keys are configured under one name; one station was
\* created and one connection launched, and its future has been read.
C19_Witness ==
    \E n \in ConfigNames :
        /\ config.keys = <<n, n>>
        /\ boot.pc = "wait"
        /\ boot.got = {n}
        /\ boot.created[n] = 1 /\ boot.connects[n] = 1

\* C20: start-up phases are ordered.  When a callback has been added, the
\* command functions are registered, a fact is in the fact base or the rule
\* engine runs or has called a command, every active configured station has
\* been created, its connect_PLC has returned true and its future was read.
C20_StartupPhasesOrdered ==
    ( \/ subs # {}
      \/ boot.functions
      \/ facts # <<>>
      \/ engine \in {"run", "station_call"}
      \/ ncmds = MaxCmds )
      => \A n \in ActiveNames :
           /\ n \in DOMAIN mps_
           /\ boot.mps_connections[n] = "true"
           /\ n \in boot.got

\* C20 witness: the constructor has finished with two stations connected; a
\* status fact was emitted and a command was executed after the connections.
C20_Witness ==
    /\ boot.pc = "constructed"
    /\ Cardinality(DOMAIN mps_) = 2
    /\ ncmds = MaxCmds
    /\ \E n \in DOMAIN mps_ : Emitted(n) # <<>>

\* C21: an accepted cs-process command executes its steps in the fixed order.
\* Every step of a cs-process task moves it to the next statement of the
\* sequence band_on_until_mid, relock, assert AVAILABLE, unlock, retrieve_cap
\* (for RETRIEVE_CAP) or mount_cap (for MOUNT_CAP), band_on_until_out, relock,
\* assert DONE, return, or out of a station call by an exception; the step
\* that leaves the first assertion appends (mps-feedback <station> <operation>
\* AVAILABLE), the step that leaves the second appends (... DONE), no other
\* step of the task appends a fact, and an AVAILABLE or DONE fact is appended
\* by no other step.  So each command emits AVAILABLE at most once, before
\* its DONE, and no DONE without its AVAILABLE.
C21_CapStepsInOrder ==
    [][ LET order(operation) ==
              {<<"none", "band_on_until_mid">>, <<"band_on_until_mid", "relock_mid">>,
               <<"relock_mid", "assert_available">>, <<"assert_available", "unlock">>,
               <<"unlock", IF operation = "RETRIEVE_CAP" THEN "retrieve_cap"
                                                         ELSE "mount_cap">>,
               <<"retrieve_cap", "band_on_until_out">>,
               <<"mount_cap", "band_on_until_out">>,
               <<"band_on_until_out", "relock_out">>, <<"relock_out", "assert_done">>,
               <<"assert_done", "return">>, <<"return", "ready">>,
               <<"band_on_until_mid", "threw">>, <<"retrieve_cap", "threw">>,
               <<"mount_cap", "threw">>, <<"band_on_until_out", "threw">>}
            emits(t) ==
              CASE tasks[t].pc = "assert_available" ->
                     <<<<"mps-feedback", tasks'[t].station, tasks'[t].arg[1], "AVAILABLE">>>>
                [] tasks[t].pc = "assert_done" ->
                     <<<<"mps-feedback", tasks'[t].station, tasks'[t].arg[1], "DONE">>>>
                [] OTHER -> <<>>
        IN /\ \A t \in TaskIds :
                (tasks'[t].op = "cs-process" /\ tasks'[t].pc # tasks[t].pc)
                  => /\ tasks'[t].arg[1] \in CsOperations
                     /\ <<tasks[t].pc, tasks'[t].pc>> \in order(tasks'[t].arg[1])
                     /\ facts' = facts \o emits(t)
           /\ ( /\ Len(facts') = Len(facts) + 1
                /\ Len(facts'[Len(facts')]) = 4
                /\ facts'[Len(facts')][4] \in {"AVAILABLE", "DONE"} )
                => \E t \in TaskIds : /\ tasks'[t].op = "cs-process"
                                      /\ tasks'[t].pc # tasks[t].pc ]_vars

\* C21 witness: a RETRIEVE_CAP command has gone through all its steps, none
\* of them timed out, and its two facts are in the fact base, AVAILABLE first.
C21_Witness ==
    \E t \in TaskIds :
        /\ tasks[t].op = "cs-process" /\ tasks[t].arg = <<"RETRIEVE_CAP">>
        /\ tasks[t].pc = "ready" /\ tasks[t].timeout = "none"
        /\ \E i, j \in 1..Len(facts) :
             /\ i < j
             /\ facts[i] = <<"mps-feedback", tasks[t].station, "RETRIEVE_CAP", "AVAILABLE">>
             /\ facts[j] = <<"mps-feedback", tasks[t].station, "RETRIEVE_CAP", "DONE">>

\* C22 (as claimed): when the run to the middle of a cs-process command timed
\* out, the command is not past that step: AVAILABLE is not asserted, the cap
\* action and the run to the output are not executed, DONE is not asserted;
\* and when the run to the output timed out, DONE is not asserted.
C22_TimeoutSkipsRemainingSteps ==
    \A t \in TaskIds :
        /\ tasks[t].timeout = "band_on_until_mid"
             => tasks[t].pc \notin {"unlock", "retrieve_cap", "mount_cap",
                                    "band_on_until_out", "relock_out", "assert_done",
                                    "return"}
        /\ tasks[t].timeout = "band_on_until_out" => tasks[t].pc # "return"

\* C23 (as claimed): a completion fact is emitted only for a command that
\* succeeded: for every deliver or cs-process task, the fact base holds no
\* more completion facts of its station and operation than there are tasks of
\* that station and operation that have asserted it with no station call
\* timed out.
C23_NoCompletionFactForFailedCommand ==
    \A t \in TaskIds :
        tasks[t].op \in {"deliver", "cs-process"}
          => CountFacts(CompletionFact(t))
               <= Cardinality({u \in TaskIds :
                                 /\ tasks[u].op = tasks[t].op
                                 /\ tasks[u].station = tasks[t].station
                                 /\ tasks[u].arg = tasks[t].arg
                                 /\ tasks[u].pc \in {"return", "ready"}
                                 /\ tasks[u].timeout = "none"})

\* C24 (as claimed): shutdown does not wait for a command: when the destructor
\* has reached the destruction of the members while a task is inside a
\* station call that has not returned, the destructor can complete.
C24_ShutdownNotBlockedByTask ==
    (boot.pc = "members" /\ \E t \in TaskIds : tasks[t].pc \in StationSteps)
      => ENABLED DestroyFutures

\* C25: in the scenario of a base, a ring and a delivery station, each of
\* the three commands is accepted when the rules call it, in whatever order:
\* the station operation of the command is invoked on the station the command
\* names, with the command's argument, and on no other; every station call
\* returns to the rule engine; and every fact that enters the fact base is
\* the time fact or the status fact of a station that has reported the
\* change, under that station's name.
C25_ScenarioNoCrossTalk ==
    [][config = ScenarioConfig =>
        /\ \A c \in agenda.calls \ agenda'.calls :
             /\ engine' = "station_call"
             /\ cur'.call =
                  CASE c[1] = "bs-dispense"   -> <<"C-CS1", "get_base", "BASE_RED">>
                    [] c[1] = "rs-mount-ring" -> <<"C-RS1", "mount_ring", 2>>
                    [] c[1] = "ds-process"    -> <<"C-RS3", "deliver_product", 1>>
             /\ cur'.call[1] = c[2]
        /\ (engine = "station_call" /\ engine' # engine)
             => engine' = "run" /\ cur' = NoCmd
        /\ (engine = "station_call" /\ engine' = engine) => cur' = cur
        /\ facts' # facts
             => \E f \in {<<"time">>} \cup
                         {<<"mps-status-feedback", n, "BUSY", "TRUE">> : n \in DOMAIN mps_} :
                  /\ facts' = Append(facts, f)
                  /\ f # <<"time">>
                       => Len(SelectSeq(facts', LAMBDA g : g = f)) <= Len(produced[f[2]])
    ]_vars

\* C25 witness: the three commands of the scenario have been called and have
\* returned, the rule engine has left run(), and two of the three stations
\* have their status fact in the fact base.
C25_Witness ==
    /\ config = ScenarioConfig
    /\ agenda.calls = {}
    /\ ncmds = Cardinality(Scenario)
    /\ engine = "idle"
    /\ \E n, m \in DOMAIN mps_ :
         /\ n # m
         /\ Emitted(n) = <<<<"mps-status-feedback", n, "BUSY", "TRUE">>>>
         /\ Emitted(m) = <<<<"mps-status-feedback", m, "BUSY", "TRUE">>>>

\* C26: clips_mps_set_lights does what three calls of clips_mps_set_light on
\* its station do, one after the other: RED with the red state, YELLOW with
\* the yellow state, GREEN with the green state.  Each of them, like the
\* set-light command itself, logs an error and returns on an unknown station
\* or symbol and calls set_light of the station otherwise; the function
\* returns after the third, and it does nothing else.
C26_SetLightsIsThreeSetLights ==
    [][LET SetLight(machine, color, state) ==
             IF machine \notin DOMAIN mps_
               THEN [log |-> {LogError("Invalid station", machine)}, call |-> <<>>]
               ELSE IF color \notin {"RED", "YELLOW", "GREEN"}
                 THEN [log |-> {LogError("Invalid color", color)}, call |-> <<>>]
                 ELSE IF state \notin {"ON", "BLINK", "OFF"}
                   THEN [log |-> {LogError("Invalid state", state)}, call |-> <<>>]
                   ELSE [log |-> {}, call |-> <<machine, "set_light", color, state, 0>>]
           Does(o) ==
             /\ log' = log \cup o.log
             /\ IF o.call = <<>> THEN engine' # "station_call"
                                 ELSE engine' = "station_call" /\ cur'.call = o.call
           Color(k) == CASE k = 1 -> "RED" [] k = 2 -> "YELLOW" [] k = 3 -> "GREEN"
       IN /\ \A c \in agenda.calls \ agenda'.calls :
               /\ c[1] = "set-light" => Does(SetLight(c[2], c[3][1], c[3][2]))
               /\ c[1] = "set-lights"
                    => /\ engine' = "set_lights" /\ log' = log
                       /\ cur'.machine = c[2] /\ cur'.arg = c[3] /\ cur'.k = 1
          /\ engine = "set_lights"
               => Does(SetLight(cur.machine, Color(cur.k), cur.arg[cur.k]))
          /\ (cur.op = "set-lights" /\ <<engine, cur>>' # <<engine, cur>>)
               => /\ UNCHANGED <<tasks, mutex_futures_, facts, clips_mutex_, ncmds>>
                  /\ \/ cur'.machine = cur.machine /\ cur'.arg = cur.arg
                     \/ cur' = NoCmd
                  /\ engine' # "station_call"
                       => IF cur.k = 3 THEN engine' = "run" /\ cur' = NoCmd
                                       ELSE engine' = "set_lights" /\ cur'.k = cur.k + 1
                  /\ engine' = "station_call" => cur'.k = cur.k
    ]_vars

\* C26 witness: set-lights with ON, BLINK and OFF has set the red and the
\* yellow light and is inside the call that sets the green light to OFF.
C26_Witness ==
    /\ cur.op = "set-lights"
    /\ cur.arg = <<"ON", "BLINK", "OFF">>
    /\ cur.k = 3
    /\ engine = "station_call"
    /\ cur.call = <<cur.machine, "set_light", "GREEN", "OFF", 0>>
    /\ log = {}

C29_MoveConveyorAlwaysReturns ==
    ~(cur.op = "move-conveyor" /\ engine \in {"terminated", "unwound"})

\* C27: the connection mode with which a station was created is the setting
\* of the station if there is one, else the common setting if there is one,
\* else "plc"; a station that was not created was given none.
C27_StationSettingOverridesCommon ==
    \A n \in ConfigNames :
        LET specific == config.connection[n]
            common == config.connection["/llsfrb/mps/connection"]
        IN boot.connection_string[n] =
             IF boot.created[n] = 0 THEN "none"
             ELSE IF specific \in {"plc", "mockup"} THEN specific
             ELSE IF common \in {"plc", "mockup"} THEN common
             ELSE "plc"

\* C27 witness: the common setting is "mockup"; one station sets "plc" and
\* was created with "plc", the other sets nothing and was created with
\* "mockup".
C27_Witness ==
    /\ config.connection["/llsfrb/mps/connection"] = "mockup"
    /\ \E n, m \in DOMAIN mps_ :
         /\ config.connection[n] = "plc" /\ boot.connection_string[n] = "plc"
         /\ config.connection[m] = "absent" /\ boot.connection_string[m] = "mockup"

\* C28: a failure of read_rfids is followed by one call of try_reconnect and
\* no more: the reconnect attempts are as many as the read failures, less
\* the one whose attempt is about to be made.  The attempt logs that it
\* succeeded or that it failed and, either way, ends sps_read_rfids with
\* the lock released and handle_timer going on: the process is alive, the
\* lock is free and handle_timer can take it for the time fact.  The timer
\* is re-armed on every expiry, whatever the reader met.
C28_ReadFailureReconnectsOnce ==
    /\ [](/\ sps_.reconnects =
               sps_.failures - (IF engine = "try_reconnect" THEN 1 ELSE 0)
          /\ engine \notin {"terminated", "unwound"}
          /\ engine = "timer" => clips_mutex_ = NoOwner /\ ENABLED handle_timer
          /\ (engine = "idle" /\ ticks < MaxTicks) => ENABLED sps_read_rfids)
    /\ [][engine = "try_reconnect"
            => /\ engine' = "timer"
               /\ clips_mutex_' = NoOwner
               /\ sps_'.reconnects = sps_.reconnects + 1
               /\ \/ log' = log \cup {<<"info", "RefBox", "Successfully reconnected">>}
                  \/ log' = log \cup {<<"error", "RefBox", "Failed to reconnect">>}
               /\ UNCHANGED <<facts, ticks>>]_vars

\* C28 witness: the reader failed on two expiries; the first reconnect
\* failed, the second succeeded, and the timer has been re-armed after both.
C28_Witness ==
    /\ sps_.failures = 2 /\ sps_.reconnects = 2
    /\ {<<"error", "RefBox", "Failed to reconnect">>,
        <<"info", "RefBox", "Successfully reconnected">>} \subseteq log
    /\ ticks = 2
    /\ engine = "idle"
    /\ clips_mutex_ = NoOwner
    /\ facts = <<<<"time">>, <<"time">>>>

\* C31 (as claimed): a station operation of a command that belongs to one
\* kind of station is only invoked on a station of that kind: the rule engine
\* is inside the station call of bs-dispense only on a BS station, of
\* ds-process only on a DS station, of rs-mount-ring only on an RS station, of
\* cs-retrieve-cap and cs-mount-cap only on a CS station, and a cs-process
\* task is inside a station call only on a CS station.
C31_KindSpecificOnMatchingKind ==
    LET kind(op) == CASE op = "bs-dispense" -> "BS"
                      [] op = "ds-process" -> "DS"
                      [] op = "rs-mount-ring" -> "RS"
                      [] op \in {"cs-retrieve-cap", "cs-mount-cap", "cs-process"} -> "CS"
        specific == {"bs-dispense", "ds-process", "rs-mount-ring",
                     "cs-retrieve-cap", "cs-mount-cap", "cs-process"}
    IN /\ (engine = "station_call" /\ cur.op \in specific)
            => mps_[cur.machine] = kind(cur.op)
       /\ \A t \in TaskIds :
            (tasks[t].op \in specific /\ tasks[t].pc \in StationSteps)
              => mps_[tasks[t].station] = kind(tasks[t].op)

\* C32: a task of deliver or cs-process holds clips_mutex_ exactly from the
\* moment it has taken it for a fact until the unlock or the return that
\* follows the assertion: never inside a station call, never while it waits
\* for the lock, never after it has ended.  So whenever a task is inside a
\* station call and the lock is not free, its owner is the timer tick or
\* another task that asserts a fact.
C32_NoLockDuringStationCall ==
    \A t \in TaskIds :
        /\ clips_mutex_ = t
             <=> tasks[t].pc \in {"assert_success", "assert_available", "assert_done",
                                 "unlock", "return"}
        /\ tasks[t].pc \in {"conveyor_move", "band_on_until_mid", "retrieve_cap",
                            "mount_cap", "band_on_until_out", "ready", "threw"}
             => /\ clips_mutex_ # t
                /\ clips_mutex_ \in TaskIds
                     => tasks[clips_mutex_].pc \notin StationSteps

\* C32 witness: a cs-process task has asserted AVAILABLE, has unlocked and is
\* inside retrieve_cap while the timer tick holds the lock and runs the
\* rule engine.
C32_Witness ==
    \E t \in TaskIds :
        /\ tasks[t].op = "cs-process"
        /\ tasks[t].pc = "retrieve_cap"
        /\ <<"mps-feedback", tasks[t].station, "RETRIEVE_CAP", "AVAILABLE">>
             \in {facts[i] : i \in 1..Len(facts)}
        /\ clips_mutex_ = Main
        /\ engine = "run"
        /\ ticks = MaxTicks

\* C33: the readiness check of a submission never waits: whenever the rule
\* engine is at the check it can take it, whatever the task of the station
\* does, and the submission it belongs to returns to the rule engine.  Every
\* task of deliver or cs-process that was started asserts its completion fact
\* and ends.
C33_DispatchNeverDeadlocks ==
    /\ [](engine = "mutex_future_ready" => ENABLED CheckPending)
    /\ (engine = "mutex_future_ready") ~> (engine = "run")
    /\ \A t \in TaskIds :
         (tasks[t].pc # "none")
           ~> (/\ tasks[t].pc = "ready"
               /\ \E i \in 1..Len(facts) :
                    facts[i] = IF tasks[t].op = "deliver"
                                 THEN <<"mps-feedback", "mps-deliver", "success",
                                        tasks[t].station>>
                                 ELSE <<"mps-feedback", tasks[t].station,
                                        tasks[t].arg[1], "DONE">>)

\* C33 witness: a submission is at the readiness check while the task of
\* its station is inside a station call and a status callback waits for the
\* lock that the timer tick holds.
C33_Witness ==
    /\ engine = "mutex_future_ready"
    /\ \E t \in TaskIds :
         /\ <<cur.machine, t>> \in mutex_futures_
         /\ tasks[t].pc \in StationSteps
    /\ clips_mutex_ = Main
    /\ \E name \in ConfigNames : cbs[name].pc = "lock"

\* C34 (as claimed): once the destructor has asserted (finalize), no further
\* fact is asserted: (finalize) is the last fact of the fact base.
C34_FinalizeIsLastFact ==
    \A i \in 1..Len(facts) : facts[i] = <<"finalize">> => i = Len(facts)

\* C35: when the simulation flag is read as true, no command function is
\* registered and no callback is added: the rules cannot call a command, the
\* rule engine is never inside a command or a station call, no task exists,
\* no station queues a notification and no status fact is in the fact base.
\* When it is false (or absent, the default), setup_clips has registered the
\* command functions once it is past the registration, and has added the
\* ready, busy and barcode callbacks of every station once it is past its
\* loop over the stations.
C35_SimulationDisablesStations ==
    /\ config.simulation
         => /\ ~boot.functions
            /\ subs = {}
            /\ ~ENABLED clips_mps_reset_lights
            /\ engine \in {"idle", "run", "terminated"} /\ cur = NoCmd
            /\ \A t \in TaskIds : tasks[t] = NoTask
            /\ \A n \in ConfigNames : produced[n] = <<>> /\ cbs[n] = NoCb
            /\ \A i \in 1..Len(facts) : facts[i][1] # "mps-status-feedback"
    /\ ~config.simulation
         => /\ boot.pc \in {"addCallback", "setup_return", "start_clips",
                            "batch_evaluate", "assert_init", "start_run", "constructed"}
                 => boot.functions
            /\ boot.pc \in {"setup_return", "start_clips", "batch_evaluate",
                            "assert_init", "start_run", "constructed"}
                 => \A n \in DOMAIN mps_ :
                      {<<n, "READY">>, <<n, "BUSY">>, <<n, "BARCODE">>} \subseteq subs

\* C35 witness: in simulation the constructor has finished with two stations
\* connected and the rules have run on the (init) fact.
C35_Witness ==
    /\ config.simulation
    /\ boot.pc = "constructed"
    /\ Cardinality(DOMAIN mps_) = 2
    /\ facts = <<<<"init">>>>
    /\ subs = {}

C37_SetLightsSkipsOnlyInvalid ==
    [][(cur.op = "set-lights" /\ cur.machine \in DOMAIN mps_)
         => LET Color == <<"RED", "YELLOW", "GREEN">>
                state == cur.arg[cur.k]
            IN /\ engine = "set_lights" /\ state \notin {"ON", "BLINK", "OFF"}
                    => /\ log' = log \cup {LogError("Invalid state", state)}
                       /\ engine' # "station_call"
                       /\ IF cur.k < 3
                            THEN /\ engine' = "set_lights"
                                 /\ cur' = [cur EXCEPT !.k = cur.k + 1]
                            ELSE engine' = "run" /\ cur' = NoCmd
               /\ engine = "set_lights" /\ state \in {"ON", "BLINK", "OFF"}
                    => /\ engine' = "station_call"
                       /\ cur'.call = <<cur.machine, "set_light", Color[cur.k], state, 0>>
                       /\ cur'.k = cur.k /\ cur'.arg = cur.arg
                       /\ log' = log
               /\ engine = "station_call" /\ engine' # "station_call"
                    => IF cur.k < 3
                         THEN /\ engine' = "set_lights"
                              /\ cur'.k = cur.k + 1 /\ cur'.arg = cur.arg
                              /\ cur'.machine = cur.machine
                         ELSE engine' = "run" /\ cur' = NoCmd
               /\ cur'.op # "set-lights" => cur.k = 3
    ]_vars

\* C37 witness: set-lights with ON, an unrecognised symbol and OFF has set
\* the red light, has logged the yellow state without a station call and is
\* inside the call that sets the green light to OFF.
C37_Witness ==
    /\ cur.op = "set-lights"
    /\ cur.machine \in DOMAIN mps_
    /\ cur.arg = <<"ON", Bogus, "OFF">>
    /\ cur.k = 3
    /\ engine = "station_call"
    /\ cur.call = <<cur.machine, "set_light", "GREEN", "OFF", 0>>
    /\ log = {LogError("Invalid state", Bogus)}

\* C38 (as claimed): in the startup of the legacy referee box sps_ is never
\* dereferenced while it is NULL, whether the SPS hosts or the stations by
\* numeric type are configured; a failure during the setup, logged with the
\* warning, leaves the referee box running with sps_ = NULL; and startup is
\* never aborted.
C38_SpsNeverDereferencedNull ==
    /\ boot.pc = "reset_lights" => ~sps_.null
    /\ boot.pc # "null_dereferenced" /\ engine # "terminated"
    /\ <<"warn", "RefBox", "Cannot connect to SPS, running without">> \in log
         => sps_.null /\ boot.pc = "running"

\* C39 (as claimed): when setup_protobuf_comm has processed the configured
\* directories, every directory string ends with "/", and "/" was appended
\* to it if and only if the last character of the configured string is not
\* "/" (an empty string has no last character and gets the "/").
C39_DirsEndWithOneSlash ==
    boot.pc = "protobuf_comm"
      => \A i \in 1..Len(config.configured) :
           LET dir == config.configured[i]
               ends == Len(dir) > 0 /\ dir[Len(dir)] = "/"
           IN /\ config.proto_dirs[i] = IF ends THEN dir ELSE Append(dir, "/")
              /\ config.proto_dirs[i][Len(config.proto_dirs[i])] = "/"

Next ==
    \/ TimerLock
    \/ TimerAssert
    \/ TimerUnlock
    \/ clips_mps_reset
    \/ clips_mps_deliver
    \/ clips_mps_cs_process
    \/ CheckPending
    \/ ReturnRejected
    \/ LaunchAsync
    \/ AssignFuture
    \/ \E t \in TaskIds : TaskStationReturn(t)
    \/ \E t \in TaskIds : TaskLock(t)
    \/ \E t \in TaskIds : TaskAssert(t)
    \/ \E t \in TaskIds : TaskUnlock(t)
    \/ \E t \in TaskIds : TaskReturn(t)
    \/ clips_mps_bs_dispense
    \/ clips_mps_ds_process
    \/ clips_mps_rs_mount_ring
    \/ clips_mps_move_conveyor
    \/ clips_mps_cs_retrieve_cap
    \/ clips_mps_cs_mount_cap
    \/ clips_mps_set_light
    \/ clips_mps_reset_lights
    \/ StationReturn
    \/ StationThrow

Spec == Init /\ [][Next]_vars

\* From the creation of the CLIPS environment to the end of the destructor,
\* with the stations of FixedConfig connected: the status callbacks next to
\* the timer, one asynchronous and one synchronous command
InitStatusSpec ==
    /\ InitEngine!1 /\ InitEngine!2 /\ InitEngine!3 /\ InitEngine!4
    /\ InitEngine!5 /\ InitEngine!6
    /\ ncmds = MaxCmds - 1       \* the rules call one command
    /\ ticks = MaxTicks - 1      \* the timer expires once
    /\ InitStatus
    /\ log = {}
    /\ config = FixedConfig
    /\ mps_ = [n \in Stations |-> FixedConfig.type[n]]
    /\ boot = ConnectedBoot
    /\ subs = {}

NextStatus ==
    \/ MakeClips
    \/ SetupLock
    \/ SetupFunctions
    \/ \E name \in ConfigNames : SetupCallbacks(name)
    \/ SetupReturn
    \/ StartClipsLock
    \/ StartClipsBatch
    \/ StartClipsAssert
    \/ StartClipsReturn
    \/ run
    \/ TimerLock
    \/ TimerAssert
    \/ TimerUnlock
    \/ clips_mps_deliver
    \/ CheckPending
    \/ LaunchAsync
    \/ AssignFuture
    \/ \E t \in TaskIds : TaskStationReturn(t)
    \/ \E t \in TaskIds : TaskLock(t)
    \/ \E t \in TaskIds : TaskAssert(t)
    \/ \E t \in TaskIds : TaskReturn(t)
    \/ clips_mps_move_conveyor
    \/ StationReturn
    \/ StationThrow
    \/ \E name \in Stations, reg \in {"READY", "BARCODE"} :
         StationChange(name, reg, 1)
    \/ \E name \in ConfigNames : CallbackEnter(name)
    \/ \E name \in ConfigNames : CallbackLock(name)
    \/ \E name \in ConfigNames : CallbackAssert(name)
    \/ \E name \in ConfigNames : CallbackReturn(name)
    \/ handle_signal
    \/ DestructorLock
    \/ DestructorAssert
    \/ DestructorUnlock
    \/ DestroyFutures

SpecStatus == InitStatusSpec /\ [][NextStatus]_vars

\* The constructor, for every configuration of at most MaxKeys keys: the
\* stations are created and connected, the CLIPS environment is set up and
\* started; a ready register may change and the rules may reset the lights
InitStartup ==
    /\ InitEngine!1 /\ InitEngine!2 /\ InitEngine!3 /\ InitEngine!4
    /\ InitEngine!5 /\ InitEngine!6
    /\ ncmds = MaxCmds - 1       \* the rules call one command
    /\ ticks = MaxTicks          \* run() is not reached: no timer
    /\ InitStatus
    /\ log = {}
    /\ config \in Configurations
    /\ mps_ = [n \in {} |-> "none"]
    /\ boot = InitialBoot
    /\ subs = {}

NextStartup ==
    \/ ConfigNext
    \/ ConfigInsert
    \/ \E name \in ConfigNames : ConnectLookup(name)
    \/ \E name \in ConfigNames : ConnectLookupRaced(name)
    \/ \E name \in ConfigNames : ConnectReturn(name)
    \/ \E name \in ConfigNames : WaitConnection(name)
    \/ WaitDone
    \/ MakeClips
    \/ SetupLock
    \/ SetupFunctions
    \/ \E name \in ConfigNames : SetupCallbacks(name)
    \/ SetupReturn
    \/ StartClipsLock
    \/ StartClipsBatch
    \/ StartClipsAssert
    \/ StartClipsReturn
    \/ clips_mps_reset_lights
    \/ StationReturn
    \/ StationThrow
    \/ \E name \in ConfigNames : StationChange(name, "READY", 1)
    \/ \E name \in ConfigNames : CallbackEnter(name)
    \/ \E name \in ConfigNames : CallbackLock(name)
    \/ \E name \in ConfigNames : CallbackAssert(name)
    \/ \E name \in ConfigNames : CallbackReturn(name)

SpecStartup == InitStartup /\ [][NextStartup]_vars

\* The status callbacks of the running referee box next to the timer: every
\* subscribed register of every station changes to any value
NextRouter ==
    \/ TimerLock
    \/ TimerAssert
    \/ TimerUnlock
    \/ \E name \in ConfigNames, reg \in Registers, ret \in RawValues :
         StationChange(name, reg, ret)
    \/ \E name \in ConfigNames : CallbackEnter(name)
    \/ \E name \in ConfigNames : CallbackLock(name)
    \/ \E name \in ConfigNames : CallbackAssert(name)
    \/ \E name \in ConfigNames : CallbackReturn(name)

SpecRouter == Init /\ [][NextRouter]_vars

\* The deliver and cs-process commands of the running referee box, with
\* station calls that return, run into the bound of their wait, or throw
NextCap ==
    \/ TimerLock
    \/ TimerAssert
    \/ TimerUnlock
    \/ clips_mps_deliver
    \/ clips_mps_cs_process
    \/ CheckPending
    \/ ReturnRejected
    \/ LaunchAsync
    \/ AssignFuture
    \/ \E t \in TaskIds : TaskStationReturn(t)
    \/ \E t \in TaskIds : TaskStationTimeout(t)
    \/ \E t \in TaskIds : TaskLock(t)
    \/ \E t \in TaskIds : TaskAssert(t)
    \/ \E t \in TaskIds : TaskUnlock(t)
    \/ \E t \in TaskIds : TaskReturn(t)

\* the running referee box of Init with one timer expiry left
InitCap ==
    /\ InitEngine!1 /\ InitEngine!2 /\ InitEngine!3 /\ InitEngine!4
    /\ InitEngine!5 /\ InitEngine!6 /\ InitEngine!7
    /\ ticks = MaxTicks - 1
    /\ InitStatus
    /\ log = {}
    /\ config = FixedConfig
    /\ mps_ = [n \in Stations |-> FixedConfig.type[n]]
    /\ boot = [ConnectedBoot EXCEPT !.pc = "running", !.armed = Stations,
                                    !.functions = TRUE]
    /\ subs = UNION {SubscriptionsFor(n) : n \in Stations}

SpecCap == InitCap /\ [][NextCap]_vars

\* The command functions called by scripted rules.  The rules make one call,
\* any of Calls, on the stations of FixedConfig, or they make the three calls
\* of Scenario on the stations of ScenarioConfig while the stations report
\* that they are busy.  The stations run on the simulated backend: every
\* station call of a synchronous command returns
NextCommands ==
    \/ TimerLock
    \/ TimerAssert
    \/ TimerUnlock
    \/ clips_mps_reset
    \/ clips_mps_deliver
    \/ clips_mps_cs_process
    \/ CheckPending
    \/ LaunchAsync
    \/ AssignFuture
    \/ \E t \in TaskIds : TaskStationReturn(t)
    \/ \E t \in TaskIds : TaskLock(t)
    \/ \E t \in TaskIds : TaskAssert(t)
    \/ \E t \in TaskIds : TaskUnlock(t)
    \/ \E t \in TaskIds : TaskReturn(t)
    \/ clips_mps_bs_dispense
    \/ clips_mps_ds_process
    \/ clips_mps_rs_mount_ring
    \/ clips_mps_move_conveyor
    \/ clips_mps_cs_retrieve_cap
    \/ clips_mps_cs_mount_cap
    \/ clips_mps_set_light
    \/ clips_mps_reset_lights
    \/ clips_mps_set_lights
    \/ SetLightsCall
    \/ StationReturn
    \/ \E name \in ConfigNames :
         config = ScenarioConfig /\ StationChange(name, "BUSY", 1)
    \/ \E name \in ConfigNames : CallbackEnter(name)
    \/ \E name \in ConfigNames : CallbackLock(name)
    \/ \E name \in ConfigNames : CallbackAssert(name)
    \/ \E name \in ConfigNames : CallbackReturn(name)

\* the running referee box with one timer expiry left and scripted rules
InitCommands ==
    /\ InitEngine!1 /\ InitEngine!2 /\ InitEngine!3 /\ InitEngine!4
    /\ InitEngine!5 /\ InitEngine!6 /\ InitEngine!7
    /\ ticks = MaxTicks - 1
    /\ InitStatus!1 /\ InitStatus!2 /\ InitStatus!3
    /\ InitStatus!5
    /\ log = {}
    /\ \/ /\ config = FixedConfig
          /\ \E call \in Calls : agenda = [scripted |-> TRUE, calls |-> {call}]
       \/ /\ config = ScenarioConfig
          /\ agenda = [scripted |-> TRUE, calls |-> Scenario]
    /\ LET names == KeyNames(config.keys)
       IN /\ mps_ = [n \in names |-> config.type[n]]
          /\ boot = [ConnectedBoot EXCEPT
                       !.pc = "running", !.armed = names, !.functions = TRUE,
                       !.k = Len(config.keys), !.mps_configs = names, !.got = names,
                       !.mps_connections =
                           [n \in ConfigNames |-> IF n \in names THEN "true" ELSE "none"],
                       !.created = [n \in ConfigNames |-> IF n \in names THEN 1 ELSE 0],
                       !.connection_string =
                           [n \in ConfigNames |-> IF n \in names THEN "plc" ELSE "none"],
                       !.connects = [n \in ConfigNames |-> IF n \in names THEN 1 ELSE 0]]
          /\ subs = UNION {SubscriptionsFor(n) : n \in names}

SpecCommands == InitCommands /\ [][NextCommands]_vars

\* The constructor up to the connections, for the stations of FixedConfig
\* and every combination of connection settings: each of "plc" and "mockup",
\* or no setting, as the common one and per station
NextFactory ==
    \/ ConfigNext
    \/ ConfigInsert
    \/ \E name \in ConfigNames : ConnectLookup(name)
    \/ \E name \in ConfigNames : ConnectLookupRaced(name)
    \/ \E name \in ConfigNames : ConnectReturn(name)
    \/ \E name \in ConfigNames : WaitConnection(name)
    \/ WaitDone

InitFactory ==
    /\ InitEngine
    /\ InitStatus
    /\ log = {}
    /\ \E connection \in [DOMAIN FixedConfig.connection -> {"absent", "plc", "mockup"}] :
         config = [FixedConfig EXCEPT !.connection = connection]
    /\ mps_ = [n \in {} |-> "none"]
    /\ boot = InitialBoot
    /\ subs = {}

SpecFactory == InitFactory /\ [][NextFactory]_vars

\* The timer of the running legacy referee box, with and without SPS
NextLegacy ==
    \/ sps_read_rfids
    \/ read_rfids
    \/ try_reconnect
    \/ handle_timer
    \/ TimerAssert
    \/ TimerUnlock

InitLegacy ==
    /\ InitEngine
    /\ InitStatus!1 /\ InitStatus!2 /\ InitStatus!3 /\ InitStatus!4
    /\ \E null \in BOOLEAN : sps_ = [null |-> null, failures |-> 0, reconnects |-> 0]
    /\ log = {}
    /\ config = [FixedConfig EXCEPT !.enable = FALSE, !.keys = <<>>]
    /\ mps_ = [n \in {} |-> "none"]
    /\ boot = [InitialBoot EXCEPT !.pc = "running"]
    /\ subs = {}

SpecLegacy == InitLegacy /\ [][NextLegacy]_vars

\* The deliver and cs-process commands next to the timer and the status
\* callbacks, with station calls that return; the busy register of one
\* station changes.  Every thread that can
\* take a step eventually takes one: the rule engine inside a tick, each
\* task, the notification thread inside a callback
NextDispatch ==
    \/ TimerLock
    \/ TimerAssert
    \/ TimerUnlock
    \/ clips_mps_deliver
    \/ clips_mps_cs_process
    \/ CheckPending
    \/ ReturnRejected
    \/ LaunchAsync
    \/ AssignFuture
    \/ \E t \in TaskIds : TaskStationReturn(t) /\ tasks'[t].pc # "threw"
    \/ \E t \in TaskIds : TaskLock(t)
    \/ \E t \in TaskIds : TaskAssert(t)
    \/ \E t \in TaskIds : TaskUnlock(t)
    \/ \E t \in TaskIds : TaskReturn(t)
    \/ StationChange("C-CS1", "BUSY", 1)
    \/ CallbackEnter("C-CS1")
    \/ CallbackLock("C-CS1")
    \/ CallbackAssert("C-CS1")
    \/ CallbackReturn("C-CS1")

SpecDispatch ==
    /\ InitCap
    /\ [][NextDispatch]_vars
    /\ WF_vars(TimerAssert \/ TimerUnlock \/ CheckPending \/ ReturnRejected
                  \/ LaunchAsync \/ AssignFuture)
    /\ \A t \in TaskIds :
         WF_vars((TaskStationReturn(t) /\ tasks'[t].pc # "threw") \/ TaskLock(t)
                   \/ TaskAssert(t) \/ TaskUnlock(t) \/ TaskReturn(t))
    /\ WF_vars(CallbackLock("C-CS1") \/ CallbackAssert("C-CS1") \/ CallbackReturn("C-CS1"))

\* The legacy referee box from the SPS part of its constructor on, for every
\* configuration of LegacyConfigurations, and then its timer and the
\* sps-set-signal command
NextLegacyStartup ==
    \/ LegacyConstructor
    \/ reset_lights
    \/ NextLegacy
    \/ clips_sps_set_signal

InitLegacyStartup ==
    /\ InitEngine
    /\ InitStatus
    /\ log = {}
    /\ config \in LegacyConfigurations
    /\ mps_ = [n \in {} |-> "none"]
    /\ boot = [InitialBoot EXCEPT !.pc = "sps_setup"]
    /\ subs = {}

SpecLegacyStartup == InitLegacyStartup /\ [][NextLegacyStartup]_vars

\* setup_protobuf_comm for every value of /llsfrb/comm/protobuf-dirs of at
\* most MaxDirs strings of DirStrings; configured keeps the value read
InitProtobuf ==
    /\ InitEngine
    /\ InitStatus
    /\ log = {}
    /\ \E n \in 0..MaxDirs : \E dirs \in [1..n -> DirStrings] :
         config = [configured |-> dirs, proto_dirs |-> dirs]
    /\ mps_ = [n \in {} |-> "none"]
    /\ boot = [InitialBoot EXCEPT !.pc = "protobuf_dirs"]
    /\ subs = {}

SpecProtobuf == InitProtobuf /\ [][setup_protobuf_comm]_vars

====
